---- MODULE Spec2Model ----
(***************************************************************************)
(* xplorertui: the OAuth 2.0 PKCE authorization flow, the token file and   *)
(* the refresh path of the API client with its concurrently spawned fetch  *)
(* tasks; process instances sharing the token file; load_credentials over  *)
(* the environment and the .env files, and the choice of the auth method;  *)
(* one bearer_get / oauth_get with handle_response; callback listeners     *)
(* binding one port; save_tokens and load_tokens in turn; OAuth 1.0a       *)
(* request signing; main and the event loop of the terminal application    *)
(* with its view stack and its loading flag; compute_scroll_start;         *)
(* parse_command; the selected_index of the top view; the OpenRouter key   *)
(* flow and load_api_key.                                                  *)
(*                                                                         *)
(* Each part has its own specification over the one set of variables; the  *)
(* variables a specification does not use keep their initial values.       *)
(*                                                                         *)
(* Option<T> is a sequence of length <= 1: None is <<>>, Some(x) is <<x>>. *)
(***************************************************************************)
EXTENDS Integers, Sequences, FiniteSets, TLC

\* ------------------------------------------------------------------ bounds
MaxTime == 2
MaxNoise == 1
MaxPairs == 2
NumTasks == 2
NumProcs == 2
MaxEnvVars == 2
NumFlows == 2
MaxSaves == 2
MaxKeys == 3
MaxItems == 3
MaxU16 == 6
MaxArg == 3
MaxDepth == 3
MaxRequests == 2

\* ------------------------------------------------------- program constants
\* chrono::Duration::seconds(60) in get_oauth2_bearer
REFRESH_SKEW == 60

\* ------------------------------------------------------------------- data
None == <<>>
Some(x) == <<x>>

\* Values the random CSRF token, and the values of query parameters, range over.
CsrfTokens == {"v1", "v2"}
Verifiers == {"p1"}
QueryValues == {"v1", "v2"}
QueryKeys == {"code", "state", "x"}
Paths == {"/callback", "/favicon.ico"}

\* One `k=v` pair of a query string; v = None is a pair without '='.
QueryPairs == {<<k, v>> : k \in QueryKeys, v \in {None} \cup {Some(x) : x \in QueryValues}}

RECURSIVE SeqsUpTo(_, _)
SeqsUpTo(S, n) ==
    IF n = 0 THEN {<<>>}
    ELSE LET shorter == SeqsUpTo(S, n - 1)
         IN shorter \cup {Append(q, p) : q \in {r \in shorter : Len(r) = n - 1}, p \in S}

Queries == SeqsUpTo(QueryPairs, MaxPairs)

\* TokenData. Tokens are numbered: 0 is a token stored before the run, k > 0
\* one the token endpoint issues in answer to the exchange made at file
\* version k - 1.
TokenData(a, r, e) == [access_token |-> a, refresh_token |-> r, expires_at |-> e]
NoData == TokenData(-1, None, None)

\* A serializer that leaves the expiry out.
to_string_pretty_no_expiry(d) ==
    LET option(o) == IF o = None THEN <<"null">> ELSE <<"string", o[1]>>
    IN [access_token |-> <<"string", d.access_token>>,
        refresh_token |-> option(d.refresh_token),
        expires_at |-> <<"null">>]

\* serde_json::to_string_pretty of a TokenData: an object of three members,
\* each a JSON string, or null for an option that is None
to_string_pretty(d) ==
    LET option(o) == IF o = None THEN <<"null">> ELSE <<"string", o[1]>>
    IN [access_token |-> <<"string", d.access_token>>,
        refresh_token |-> option(d.refresh_token),
        expires_at |-> option(d.expires_at)]

\* serde_json::from_str::<TokenData> of such an object
from_str(j) ==
    LET option(v) == IF v = <<"null">> THEN None ELSE Some(v[2])
    IN TokenData(j.access_token[2], option(j.refresh_token), option(j.expires_at))

\* The token file: absent, a serialized TokenData (held as what parsing its
\* text gives), or bytes that do not parse.
AbsentFile == [kind |-> "absent", data |-> NoData]
GarbageFile == [kind |-> "garbage", data |-> NoData]
JsonFile(d) == [kind |-> "json", data |-> from_str(to_string_pretty(d))]

\* Token files a run can start from.
InitRefresh == {None, Some(0)}
InitExpiry == {None, Some(0), Some(REFRESH_SKEW + 1), Some(REFRESH_SKEW + 2)}
InitFiles ==
    {AbsentFile, GarbageFile}
        \cup {JsonFile(TokenData(0, r, e)) : r \in InitRefresh, e \in InitExpiry}

\* Successful token-endpoint responses.
RespExpiresIn == {None, Some(REFRESH_SKEW + 1)}
TokenResponses(k) ==
    [access_token : {k}, refresh_token : {None, Some(k)}, expires_in : RespExpiresIn]

SaveOutcomes == {"ok", "mkdir_err", "create_err", "write_err"}

VARIABLES
    file,           \* ~/.config/xplorertui/tokens.json
    now,            \* Utc::now(), in seconds
    \* start_pkce_flow
    flow_pc,        \* position of the flow
    csrf_state,     \* Option: the generated CSRF token
    pkce_verifier,  \* Option: the generated PKCE verifier
    cb,             \* Option: (code, state) parsed from the /callback request
    flow_result,    \* "Pending", "Ok" or the error returned
    flow_data,      \* Option: the TokenData returned
    pages,          \* responses written to the browser, in order
    file0,          \* history: the token file when the run started
    flow_exchanged, \* history: token-endpoint exchanges attempted
    flow_writes,    \* history: writes to the token file
    \* XApiClient behind Arc<Mutex<..>> and the spawned fetch tasks
    lock,           \* holder of the tokio Mutex, 0 when free
    user_id,        \* Option: XApiClient.user_id
    task,           \* per task: position and locals
    fileVer,        \* history: number of writes to the token file
    xlog,           \* history: file versions of pending or persisted refreshes
    \* process instances sharing the token file
    proc,           \* per process: position and locals of its load-refresh-save
    issued,         \* tokens the token endpoint has issued so far
    \* load_credentials and AuthProvider::new
    environ,        \* the process environment: variable -> Option value
    env0,           \* history: the environment the process started with
    home,           \* dirs::home_dir() is Some
    nextPath,       \* index of the next candidate .env path
    lastFile,       \* Option: content of the .env file loaded last
    loaded_creds,   \* "Pending", or the result of load_credentials
    provider,       \* "Pending", or the result of AuthProvider::new
    \* one invocation of bearer_get / oauth_get
    call,           \* position and locals of the invocation
    \* flows binding the one callback port
    listeners,      \* the holder of the port and, per flow, how far it got
    \* generate_oauth_header
    signer,         \* the inputs of the signing runs and the headers they gave
    \* main and App: the client, the view stack
    tui,            \* the application from startup on
    \* compute_scroll_start
    scroll,         \* the inputs and the result of one call
    \* save_tokens and load_tokens called in turn
    store,          \* history: the last record saved, the last result loaded
    \* parse_command
    cmdline,        \* the input and the result of one call
    \* the top view of the view stack and the list it shows
    sel,            \* selected_index, the length of the list, the fetch under way
    \* start_openrouter_auth and load_api_key
    orflow          \* the key file, the environment, the position of the flow

flowVars == <<flow_pc, csrf_state, pkce_verifier, cb, flow_result, flow_data, pages, file0,
              flow_exchanged, flow_writes>>
apiVars == <<lock, user_id, task, fileVer, xlog>>
raceVars == <<proc, issued>>
credVars == <<environ, env0, home, nextPath, lastFile, loaded_creds, provider>>
callVars == <<call>>
moreVars == <<listeners, signer, tui, scroll, store>>
lateVars == <<cmdline, sel, orflow>>
extVars == <<raceVars, credVars, callVars, moreVars, lateVars>>
vars == <<file, now, flowVars, apiVars, extVars>>

\* ------------------------------------------------------------ token store

\* A save that leaves a record with a newer access token in place.
save_tokens_keep_newer(f, data, outcome) ==
    CASE outcome = "ok" ->
            IF f.kind = "json" /\ f.data.access_token > data.access_token
            THEN f ELSE JsonFile(data)
      [] outcome = "mkdir_err" -> f
      [] outcome = "create_err" -> f
      [] outcome = "write_err" -> GarbageFile

\* save_tokens: the file after the call, by how far the call got.
save_tokens(f, data, outcome) ==
    CASE outcome = "ok" -> JsonFile(data)
      [] outcome = "mkdir_err" -> f
      [] outcome = "create_err" -> f
      [] outcome = "write_err" -> GarbageFile

save_result(outcome) == IF outcome = "ok" THEN "Ok" ELSE "Io"

\* A load that treats a file it cannot parse as no file.
load_tokens_lenient(f, readOk) ==
    CASE f.kind = "absent" -> [res |-> "Ok", data |-> None]
      [] ~readOk -> [res |-> "Io", data |-> None]
      [] f.kind = "garbage" -> [res |-> "Ok", data |-> None]
      [] OTHER -> [res |-> "Ok", data |-> Some(f.data)]

\* load_tokens: Ok(None), Ok(Some(data)), or an error.
load_tokens(f, readOk) ==
    CASE f.kind = "absent" -> [res |-> "Ok", data |-> None]
      [] ~readOk -> [res |-> "Io", data |-> None]
      [] f.kind = "garbage" -> [res |-> "Json", data |-> None]
      [] OTHER -> [res |-> "Ok", data |-> Some(f.data)]

\* token_response_to_data
token_response_to_data(token_result, existing_refresh, t) ==
    LET expires_at ==
            IF token_result.expires_in = None THEN None
            ELSE Some(t + token_result.expires_in[1])
        refresh_token ==
            IF token_result.refresh_token # None THEN token_result.refresh_token
            ELSE existing_refresh
    IN TokenData(token_result.access_token, refresh_token, expires_at)

\* ------------------------------------------------------- start_pkce_flow

\* The query-string loop: the last `code=v` and the last `state=v` win.
RECURSIVE ParseQuery(_, _)
ParseQuery(query, acc) ==
    IF query = <<>> THEN acc
    ELSE LET pair == Head(query)
             next ==
                 CASE pair[1] = "code" /\ pair[2] # None -> [acc EXCEPT !.code = pair[2]]
                   [] pair[1] = "state" /\ pair[2] # None -> [acc EXCEPT !.state = pair[2]]
                   [] OTHER -> acc
         IN ParseQuery(Tail(query), next)

NoCallback == [code |-> None, state |-> None]

Fail(err) ==
    /\ flow_pc' = "Failed"
    /\ flow_result' = err

\* TcpListener::bind
Bind ==
    /\ flow_pc = "Idle"
    /\ \E outcome \in {"ok", "AddrInUse", "other"} :
        CASE outcome = "ok" -> flow_pc' = "ListenerBound" /\ flow_result' = flow_result
          [] outcome = "AddrInUse" -> Fail("PortInUse")
          [] OTHER -> Fail("Io")
    /\ UNCHANGED <<file, now, csrf_state, pkce_verifier, cb, flow_data, pages, file0, flow_exchanged,
                   flow_writes, apiVars, extVars>>

\* PKCE challenge, CSRF token, authorization URL, open::that (best effort)
OpenBrowser ==
    /\ flow_pc = "ListenerBound"
    /\ \E c \in CsrfTokens : csrf_state' = Some(c)
    /\ \E v \in Verifiers : pkce_verifier' = Some(v)
    /\ flow_pc' = "AwaitingRedirect"
    /\ UNCHANGED <<file, now, cb, flow_result, flow_data, pages, file0, flow_exchanged,
                   flow_writes, apiVars, extVars>>

\* listener.accept() or the read of the request fails
AcceptError ==
    /\ flow_pc = "AwaitingRedirect"
    /\ Fail("Io")
    /\ UNCHANGED <<file, now, csrf_state, pkce_verifier, cb, flow_data, pages, file0, flow_exchanged,
                   flow_writes, apiVars, extVars>>

\* A loop without the `continue`: the 404 is written and the loop is left as
\* if the request had been the callback, with no code and no state.
NotCallback_no_continue ==
    /\ flow_pc = "AwaitingRedirect"
    /\ Len(pages) < MaxNoise
    /\ \E path \in Paths \ {"/callback"}, writeOk \in BOOLEAN :
        IF writeOk
        THEN /\ pages' = Append(pages, "404")
             /\ cb' = Some(NoCallback)
             /\ flow_pc' = "CodeReceived"
             /\ UNCHANGED flow_result
        ELSE /\ Fail("Io")
             /\ UNCHANGED <<pages, cb>>
    /\ UNCHANGED <<file, now, csrf_state, pkce_verifier, flow_data, file0, flow_exchanged,
                   flow_writes, apiVars, extVars>>

\* a request for another path: 404 and keep listening
NotCallback ==
    /\ flow_pc = "AwaitingRedirect"
    /\ Len(pages) < MaxNoise
    /\ \E path \in Paths \ {"/callback"}, writeOk \in BOOLEAN :
        IF writeOk
        THEN /\ pages' = Append(pages, "404")
             /\ UNCHANGED <<flow_pc, flow_result>>
        ELSE /\ Fail("Io")
             /\ UNCHANGED pages
    /\ UNCHANGED <<file, now, csrf_state, pkce_verifier, cb, flow_data, file0, flow_exchanged,
                   flow_writes, apiVars, extVars>>

\* A loop that looks for the state before it answers: a callback without a
\* state fails with CsrfMismatch and no page is written.
Callback_validate_first ==
    /\ flow_pc = "AwaitingRedirect"
    /\ \E query \in Queries, writeOk \in BOOLEAN :
        /\ cb' = Some(ParseQuery(query, NoCallback))
        /\ IF ParseQuery(query, NoCallback).state = None
           THEN /\ Fail("CsrfMismatch")
                /\ UNCHANGED pages
           ELSE IF writeOk
           THEN /\ pages' = Append(pages, "200")
                /\ flow_pc' = "CodeReceived"
                /\ UNCHANGED flow_result
           ELSE /\ Fail("Io")
                /\ UNCHANGED pages
    /\ UNCHANGED <<file, now, csrf_state, pkce_verifier, flow_data, file0, flow_exchanged,
                   flow_writes, apiVars, extVars>>

\* the first request for /callback: parse the query, answer 200, leave the loop
Callback ==
    /\ flow_pc = "AwaitingRedirect"
    /\ \E query \in Queries, writeOk \in BOOLEAN :
        /\ cb' = Some(ParseQuery(query, NoCallback))
        /\ IF writeOk
           THEN /\ pages' = Append(pages, "200")
                /\ flow_pc' = "CodeReceived"
                /\ UNCHANGED flow_result
           ELSE /\ Fail("Io")
                /\ UNCHANGED pages
    /\ UNCHANGED <<file, now, csrf_state, pkce_verifier, flow_data, file0, flow_exchanged,
                   flow_writes, apiVars, extVars>>

\* A validate that compares nothing: any present state passes.
validate_any_state(cbv, csrf) ==
    CASE cbv.state = None -> "CsrfMismatch"
      [] cbv.state # None /\ cbv.code = None -> "MissingCode"
      [] OTHER -> "Ok"

\* A validate that does not require the code.
validate_no_code(cbv, csrf) ==
    CASE cbv.state = None -> "CsrfMismatch"
      [] cbv.state # None /\ cbv.state[1] # csrf -> "CsrfMismatch"
      [] OTHER -> "Ok"

\* A validate that looks at the code before the state.
validate_code_first(cbv, csrf) ==
    CASE cbv.code = None -> "MissingCode"
      [] cbv.code # None /\ cbv.state = None -> "CsrfMismatch"
      [] cbv.code # None /\ cbv.state # None /\ cbv.state[1] # csrf -> "CsrfMismatch"
      [] OTHER -> "Ok"

\* state.ok_or(CsrfMismatch)?; state != csrf_state.secret(); code.ok_or(MissingCode)?
validate(cbv, csrf) ==
    CASE cbv.state = None -> "CsrfMismatch"
      [] cbv.state # None /\ cbv.state[1] # csrf -> "CsrfMismatch"
      [] cbv.state # None /\ cbv.state[1] = csrf /\ cbv.code = None -> "MissingCode"
      [] OTHER -> "Ok"

\* validate state, then code; send the code exchange to the token endpoint
Validate ==
    /\ flow_pc = "CodeReceived"
    /\ LET v == validate(cb[1], csrf_state[1])
       IN IF v = "Ok"
          THEN /\ flow_pc' = "Exchanging"
               /\ flow_exchanged' = flow_exchanged + 1
               /\ UNCHANGED flow_result
          ELSE /\ Fail(v)
               /\ UNCHANGED flow_exchanged
    /\ UNCHANGED <<file, now, csrf_state, pkce_verifier, cb, flow_data, pages, file0, flow_writes, apiVars, extVars>>

\* the token endpoint answers: token_response_to_data, save_tokens, Ok(data)
ExchangeDone ==
    /\ flow_pc = "Exchanging"
    /\ \/ /\ Fail("Request")
          /\ UNCHANGED <<file, flow_data, flow_writes, fileVer>>
       \/ \E resp \in TokenResponses(fileVer + 1), outcome \in SaveOutcomes :
            LET data == token_response_to_data(resp, None, now)
            IN /\ file' = save_tokens(file, data, outcome)
               /\ flow_writes' = IF outcome \in {"ok", "write_err"}
                                 THEN flow_writes + 1 ELSE flow_writes
               /\ fileVer' = IF outcome \in {"ok", "write_err"}
                             THEN fileVer + 1 ELSE fileVer
               /\ IF outcome = "ok"
                  THEN /\ flow_pc' = "Complete"
                       /\ flow_result' = "Ok"
                       /\ flow_data' = Some(data)
                  ELSE /\ Fail(save_result(outcome))
                       /\ UNCHANGED flow_data
    /\ UNCHANGED <<now, csrf_state, pkce_verifier, cb, pages, file0, flow_exchanged, lock,
                   user_id, task, xlog, extVars>>

\* the clock
Tick ==
    /\ now < MaxTime
    /\ now' = now + 1
    /\ UNCHANGED <<file, flowVars, apiVars, extVars>>

\* ------------------------------------------------------------------ tasks
Tasks == 1 .. NumTasks

\* AppEvent::Fetch*; the three that call get_my_user_id and oauth_get
FetchEvents ==
    {"FetchHomeTimeline", "FetchUserTimeline", "FetchTweet", "FetchThread", "FetchUser",
     "FetchSearch", "FetchMentions", "FetchBookmarks", "FetchFollowers", "FetchFollowing"}
UserContextEvents == {"FetchHomeTimeline", "FetchMentions", "FetchBookmarks"}

UserIds == {"u1"}

IdleTask == [pc |-> "unspawned", ctx |-> "app", loaded |-> None, loadedAt |-> 0,
             exch |-> 0, wrote |-> FALSE, resp |-> None, header |-> None,
             result |-> "Pending"]

\* A comparison that leaves out the instant of equality.
needs_refresh_strict(tokens, t) ==
    /\ tokens.expires_at # None
    /\ t + REFRESH_SKEW > tokens.expires_at[1]
    /\ tokens.refresh_token # None

\* get_oauth2_bearer: expires_at is Some, now + 60s >= expires_at, refresh_token is Some
needs_refresh(tokens, t) ==
    /\ tokens.expires_at # None
    /\ t + REFRESH_SKEW >= tokens.expires_at[1]
    /\ tokens.refresh_token # None

\* A mutex that admits everyone.
lock_granted_always(l) == TRUE

\* client.lock().await returns once no other task holds the guard
lock_granted(l) == l = 0

\* A response that keeps the old access token.
bearer_of_loaded(refreshed, tokens) == tokens.access_token

\* format!("Bearer {}", refreshed.access_token)
bearer_of_refreshed(refreshed, tokens) == refreshed.access_token

\* A conversion that drops the existing refresh token.
refreshed_data_no_existing(resp, refresh, t) == token_response_to_data(resp, None, t)

\* refresh_token: token_response_to_data(&token_result, Some(refresh))
refreshed_data(resp, refresh, t) == token_response_to_data(resp, Some(refresh), t)

RECURSIVE RemoveTask(_, _)
RemoveTask(log, t) ==
    IF log = <<>> THEN <<>>
    ELSE IF Head(log)[1] = t THEN Tail(log)
    ELSE <<Head(log)>> \o RemoveTask(Tail(log), t)

\* the spawned block ends: the result is sent to the event loop, the guard dropped
Finish(t, res) ==
    /\ task' = [task EXCEPT ![t] = [IdleTask EXCEPT !.pc = "done", !.result = res]]
    /\ lock' = IF lock = t THEN 0 ELSE lock

\* dispatch_api_request: tokio::spawn of the block for one Fetch* event;
\* tasks are numbered in the order the event loop spawns them
Dispatch(t) ==
    /\ task[t].pc = "unspawned"
    /\ \A u \in Tasks : u < t => task[u].pc # "unspawned"
    /\ \E ev \in FetchEvents :
        task' = [task EXCEPT ![t].pc = "lock",
                             ![t].ctx = IF ev \in UserContextEvents THEN "user" ELSE "app"]
    /\ UNCHANGED <<file, now, flowVars, extVars, lock, user_id, fileVer, xlog>>

\* client.lock().await
Lock(t) ==
    /\ task[t].pc = "lock"
    /\ lock_granted(lock)
    /\ lock' = t
    /\ task' = [task EXCEPT ![t].pc = IF task[t].ctx = "user" THEN "my_id" ELSE "bearer"]
    /\ UNCHANGED <<file, now, flowVars, extVars, user_id, fileVer, xlog>>

\* A client that never finds an id in its cache.
has_cached_id_never(uid) == FALSE

\* get_my_user_id: `if let Some(ref id) = self.user_id`
has_cached_id(uid) == uid # None

\* get_my_user_id, get_authenticated_user_id up to the send of GET /2/users/me
GetMyUserId(t) ==
    /\ task[t].pc = "my_id"
    /\ IF has_cached_id(user_id)
       THEN /\ task' = [task EXCEPT ![t].pc = "bearer"]
            /\ UNCHANGED lock
       ELSE \E readOk \in BOOLEAN :
            LET l == load_tokens(file, readOk)
            IN CASE l.res # "Ok" -> Finish(t, l.res)
                 [] l.res = "Ok" /\ l.data = None -> Finish(t, "NoAuthMethod")
                 [] OTHER ->
                      /\ task' = [task EXCEPT ![t].pc = "me_sent",
                                              ![t].loaded = l.data,
                                              ![t].loadedAt = now,
                                              ![t].header = Some(l.data[1].access_token)]
                      /\ UNCHANGED lock
    /\ UNCHANGED <<file, now, flowVars, extVars, user_id, fileVer, xlog>>

\* the answer to GET /2/users/me; get_my_user_id caches the id
UsersMeDone(t) ==
    /\ task[t].pc = "me_sent"
    /\ \/ \E id \in UserIds :
            /\ user_id' = Some(id)
            /\ task' = [task EXCEPT ![t].pc = "bearer", ![t].loaded = None,
                                    ![t].loadedAt = 0, ![t].header = None]
            /\ UNCHANGED lock
       \/ \E err \in {"Http", "UserParse"} :
            /\ Finish(t, err)
            /\ UNCHANGED user_id
    /\ UNCHANGED <<file, now, flowVars, extVars, fileVer, xlog>>

\* get_oauth2_bearer up to the first await: load, decide, refresh or use
GetOAuth2Bearer(t) ==
    /\ task[t].pc = "bearer"
    /\ \E readOk \in BOOLEAN :
        LET l == load_tokens(file, readOk)
        IN CASE l.res # "Ok" -> Finish(t, l.res) /\ UNCHANGED xlog
             [] l.res = "Ok" /\ l.data = None -> Finish(t, "NoAuthMethod") /\ UNCHANGED xlog
             [] l.res = "Ok" /\ l.data # None /\ needs_refresh(l.data[1], now) ->
                  /\ task' = [task EXCEPT ![t].pc = "refreshing",
                                          ![t].loaded = l.data,
                                          ![t].loadedAt = now,
                                          ![t].exch = task[t].exch + 1]
                  /\ xlog' = Append(xlog, <<t, fileVer>>)
                  /\ UNCHANGED lock
             [] OTHER ->
                  /\ task' = [task EXCEPT ![t].pc = "api_sent",
                                          ![t].loaded = l.data,
                                          ![t].loadedAt = now,
                                          ![t].header = Some(l.data[1].access_token)]
                  /\ UNCHANGED <<lock, xlog>>
    /\ UNCHANGED <<file, now, flowVars, extVars, user_id, fileVer>>

\* refresh_token after the exchange: convert, save_tokens, then the header
RefreshDone(t) ==
    /\ task[t].pc = "refreshing"
    /\ \/ /\ Finish(t, "Request")
          /\ xlog' = RemoveTask(xlog, t)
          /\ UNCHANGED <<file, fileVer>>
       \/ \E resp \in TokenResponses(fileVer + 1), outcome \in SaveOutcomes :
            LET tokens == task[t].loaded[1]
                data == refreshed_data(resp, tokens.refresh_token[1], now)
            IN /\ file' = save_tokens(file, data, outcome)
               /\ fileVer' = IF outcome \in {"ok", "write_err"} THEN fileVer + 1 ELSE fileVer
               /\ IF outcome = "ok"
                  THEN /\ task' = [task EXCEPT ![t].pc = "api_sent",
                                               ![t].wrote = TRUE,
                                               ![t].resp = Some(resp),
                                               ![t].header =
                                                   Some(bearer_of_refreshed(data, tokens))]
                       /\ UNCHANGED <<lock, xlog>>
                  ELSE /\ Finish(t, save_result(outcome))
                       /\ xlog' = RemoveTask(xlog, t)
    /\ UNCHANGED <<now, flowVars, extVars, user_id>>

\* the API answers; handle_response; the task ends
ApiDone(t) ==
    /\ task[t].pc = "api_sent"
    /\ \E res \in {"Ok", "Http", "RateLimited", "ApiError", "Deserialize"} : Finish(t, res)
    /\ UNCHANGED <<file, now, flowVars, extVars, user_id, fileVer, xlog>>

\* ------------------------------------------------- claims: get_my_user_id
\* No lookup is under way once an id is cached.
C31_NoLookupWhenCached == user_id # None => \A t \in Tasks : task[t].pc # "me_sent"

C31_Step ==
    /\ user_id # None => user_id' = user_id
    /\ \A t \in Tasks :
        task[t].pc = "me_sent" =>
            /\ task'[t].pc = "bearer" => (user_id = None /\ user_id' # None)
            /\ task'[t].pc = "done" => user_id' = None
            /\ \A u \in Tasks \ {t} : task[u].pc \notin {"my_id", "me_sent"}

\* C31: once a lookup has succeeded the id stays cached and no call looks
\* up again; a failed lookup leaves the cache empty; of the tasks sharing
\* the client one at a time is inside get_my_user_id, so at most one lookup
\* succeeds.
C31_LookupOnce == []C31_NoLookupWhenCached /\ [][C31_Step]_vars

\* One task's lookup failed, the other task looked up again, was answered,
\* and goes on with the cached id.
C31_Witness ==
    \E t, u \in Tasks :
        /\ task[u].pc = "done"
        /\ task[u].result = "UserParse"
        /\ task[t].ctx = "user"
        /\ task[t].pc = "api_sent"
        /\ user_id # None

\* ------------------------------------------------- claims: start_pkce_flow
FlowTerminal == flow_pc \in {"Complete", "Failed"}

\* the state of the first /callback request is absent or is not the CSRF token
BadState == cb # None /\ (cb[1].state = None \/ cb[1].state[1] # csrf_state[1])

\* C1 as stated: when the state parameter of the first /callback request is
\* absent or differs from the generated CSRF token, the flow ends with
\* CsrfMismatch, attempts no token exchange and never writes the token file.
C1_CsrfMismatchAlways ==
    BadState =>
        /\ FlowTerminal => flow_result = "CsrfMismatch"
        /\ flow_exchanged = 0
        /\ flow_writes = 0
        /\ file = file0

\* C1 amended: with such a callback the flow ends in failure, with CsrfMismatch
\* when the 200 page was written to the browser and with an I/O error when that
\* write failed; it attempts no token exchange and never writes the token file.
C1_CsrfMismatchOrIo ==
    BadState =>
        /\ flow_pc \in {"CodeReceived", "Failed"}
        /\ FlowTerminal =>
              flow_result = (IF pages # <<>> /\ pages[Len(pages)] = "200"
                             THEN "CsrfMismatch" ELSE "Io")
        /\ flow_exchanged = 0
        /\ flow_writes = 0
        /\ file = file0

C1_Witness ==
    /\ flow_pc = "Failed"
    /\ flow_result = "CsrfMismatch"
    /\ cb # None
    /\ cb[1].state # None
    /\ cb[1].state[1] # csrf_state[1]
    /\ cb[1].code # None

\* C2 as stated: a finished run is either Ok with the token file holding exactly
\* the returned TokenData, or an error with the token file exactly what it was
\* before the run.
C2_OkOrUntouched ==
    FlowTerminal =>
        \/ /\ flow_result = "Ok"
           /\ flow_data # None
           /\ file = JsonFile(flow_data[1])
        \/ /\ flow_result \in {"PortInUse", "Io", "CsrfMismatch", "MissingCode", "Request"}
           /\ flow_data = None
           /\ file = file0

\* C3: the flow only moves forward through Idle, ListenerBound,
\* AwaitingRedirect, CodeReceived, Exchanging, Complete, or to Failed; the token
\* exchange is attempted only after a /callback request whose state is the CSRF
\* token and that carries a code; the token file is written only by the step
\* that receives the successful exchange response.
FlowEdges ==
    {<<"Idle", "ListenerBound">>, <<"ListenerBound", "AwaitingRedirect">>,
     <<"AwaitingRedirect", "AwaitingRedirect">>, <<"AwaitingRedirect", "CodeReceived">>,
     <<"CodeReceived", "Exchanging">>, <<"Exchanging", "Complete">>}
        \cup {<<s, "Failed">> :
                s \in {"Idle", "ListenerBound", "AwaitingRedirect", "CodeReceived", "Exchanging"}}

C3_Step ==
    /\ flow_pc' # flow_pc => <<flow_pc, flow_pc'>> \in FlowEdges
    /\ flow_exchanged' # flow_exchanged =>
          /\ flow_pc = "CodeReceived"
          /\ flow_pc' = "Exchanging"
          /\ cb # None
          /\ cb[1].state = csrf_state
          /\ cb[1].code # None
    /\ (flow_writes' # flow_writes \/ file' # file) =>
          /\ flow_pc = "Exchanging"
          /\ flow_exchanged = 1
          /\ flow_result' \in {"Ok", "Io"}

C3_ForwardOnly == [][C3_Step]_vars

C3_Witness == flow_pc = "Complete" /\ flow_writes = 1 /\ flow_exchanged = 1

\* ------------------------------------------- claims: refresh and fetch tasks
\* the record a task read and the time it read it
Rec(t) == task[t].loaded[1]
InBearer(t) == task[t].pc \in {"refreshing", "api_sent"}

\* "now + 60s >= expiry", for a record with an expiry
Due(rec, at) == rec.expires_at # None /\ at + 60 >= rec.expires_at[1]

\* C4: for a stored record with an expiry and a refresh token, get_oauth2_bearer
\* attempts the refresh exchange exactly when now + 60s >= expiry (equality
\* included); a record without an expiry is never refreshed.
C4_RefreshIffDue ==
    \A t \in Tasks :
        InBearer(t) =>
            /\ (Rec(t).expires_at # None /\ Rec(t).refresh_token # None) =>
                  (task[t].exch = 1 <=> task[t].loadedAt + 60 >= Rec(t).expires_at[1])
            /\ Rec(t).expires_at = None => task[t].exch = 0
            /\ task[t].exch \in {0, 1}

\* refreshed at the very second of equality, and left alone one second earlier
C4_Witness ==
    \E t \in Tasks :
        /\ task[t].pc = "refreshing"
        /\ task[t].exch = 1
        /\ Rec(t).expires_at = Some(task[t].loadedAt + 60)
        /\ task[t].loadedAt = 1

\* C5 as stated: when the stored record is expired (now + 60s >= expiry) and has
\* no refresh token, the request fails and the stale access token is never put
\* in an Authorization header.
C5_NoStaleHeader ==
    \A t \in Tasks :
        (task[t].pc = "api_sent" /\ task[t].header # None) =>
            ~(Due(Rec(t), task[t].loadedAt) /\ Rec(t).refresh_token = None)

\* C6: for a stored record whose refresh is due (in particular one with its
\* expiry in the past) with a refresh token, get_oauth2_bearer returns a header
\* only after exactly one refresh exchange and the write of the refreshed
\* record, and the header carries the access token of the response, which is the
\* one on disk.
C6_RefreshThenHeader ==
    \A t \in Tasks :
        (InBearer(t) /\ Due(Rec(t), task[t].loadedAt) /\ Rec(t).refresh_token # None) =>
            /\ task[t].exch = 1
            /\ Cardinality({i \in 1 .. Len(xlog) : xlog[i][1] = t}) = 1
            /\ task[t].pc = "refreshing" => (task[t].header = None /\ ~task[t].wrote)
            /\ task[t].pc = "api_sent" =>
                  /\ task[t].wrote
                  /\ task[t].resp # None
                  /\ task[t].header = Some(task[t].resp[1].access_token)
                  /\ file.kind = "json"
                  /\ task[t].header = Some(file.data.access_token)

C6_Witness ==
    \E t \in Tasks :
        /\ task[t].pc = "api_sent"
        /\ task[t].wrote
        /\ Rec(t).expires_at # None
        /\ Rec(t).expires_at[1] < task[t].loadedAt
        /\ task[t].header # Some(Rec(t).access_token)

\* C7: a successful refresh stores the refresh token of the exchange response
\* when the response has one and the previously stored one otherwise; so the
\* stored refresh token is never turned from present to absent.
C7_Step ==
    \A t \in Tasks :
        (task[t].pc = "refreshing" /\ task'[t].pc = "api_sent") =>
            /\ file.kind = "json"
            /\ file'.kind = "json"
            /\ file.data.refresh_token # None
            /\ file'.data.refresh_token # None
            /\ file'.data.refresh_token =
                  (IF task'[t].resp[1].refresh_token # None
                   THEN task'[t].resp[1].refresh_token
                   ELSE file.data.refresh_token)

C7_RefreshTokenKept == [][C7_Step]_vars

\* a second refresh whose response has no refresh token keeps the one the
\* first response brought
C7_Witness ==
    \E t \in Tasks :
        /\ task[t].pc = "api_sent"
        /\ task[t].wrote
        /\ task[t].resp[1].refresh_token = None
        /\ file.data.refresh_token = Some(1)
        /\ fileVer = 2

\* C8 as stated: every request authorized with a PkceDelegated token, GET
\* /2/users/me included, is sent only after the refresh policy was applied to
\* the record read for it: the record was refreshed, or no refresh was due.
C8_PolicyBeforeUse ==
    \A t \in Tasks :
        (task[t].pc \in {"me_sent", "api_sent"} /\ task[t].header # None) =>
            \/ task[t].wrote
            \/ ~(Due(Rec(t), task[t].loadedAt) /\ Rec(t).refresh_token # None)

\* C9: check-then-refresh-then-use never interleaves within the process: at
\* most one task is between its check and its use; no two refresh exchanges,
\* pending or persisted, started from the same stored record; and a task
\* that has not itself refreshed holds the record that is on disk.
InCheckUse(t) == task[t].pc \in {"my_id", "me_sent", "bearer", "refreshing", "api_sent"}

C9_Serialized ==
    /\ Cardinality({t \in Tasks : InCheckUse(t)}) <= 1
    /\ \A i, j \in 1 .. Len(xlog) : i # j => xlog[i][2] # xlog[j][2]
    /\ \A t \in Tasks :
          (task[t].loaded # None /\ ~task[t].wrote) =>
              (file.kind = "json" /\ file.data = Rec(t))

\* one exchange was made from the stale record and a later task, at the same
\* instant, uses the refreshed record without an exchange of its own
C9_Witness ==
    /\ now = 0
    /\ fileVer = 1
    /\ Len(xlog) = 1
    /\ \E t, u \in Tasks :
          /\ task[u].pc = "done"
          /\ xlog[1][1] = u
          /\ task[t].pc = "api_sent"
          /\ task[t].exch = 0
          /\ file.data = Rec(t)

\* C10 as stated: a task that needs no refresh is never kept waiting for the
\* lock while its holder has an outbound call or a refresh exchange in flight.
C10_NotBlockedByCalls ==
    \A t \in Tasks :
        (/\ task[t].pc = "lock"
         /\ file.kind = "json"
         /\ ~(Due(file.data, now) /\ file.data.refresh_token # None)) =>
            ~(lock # 0 /\ task[lock].pc \in {"me_sent", "refreshing", "api_sent"})

\* ------------------------------------------- claims: validation, bind errors
\* the first /callback request carries the CSRF token as state and no code
GoodStateNoCode == cb # None /\ cb[1].state = csrf_state /\ cb[1].code = None

\* the 200 page was written to the browser
PageWritten == pages # <<>> /\ pages[Len(pages)] = "200"

\* C21 as stated: a callback whose state is the CSRF token and that has no code
\* ends the flow with MissingCode and no token exchange; a callback that lacks
\* both ends it with CsrfMismatch.
C21_MissingCodeAlways ==
    /\ GoodStateNoCode =>
           /\ FlowTerminal => flow_result = "MissingCode"
           /\ flow_exchanged = 0
    /\ (cb # None /\ cb[1].state = None /\ cb[1].code = None /\ FlowTerminal) =>
           flow_result = "CsrfMismatch"

\* C21, amended: such a callback ends the flow with MissingCode when the 200
\* page was written and with an I/O error when that write failed, with no token
\* exchange; a callback that lacks both ends it with CsrfMismatch (or that I/O
\* error), never with MissingCode.
C21_MissingCodeOrIo ==
    /\ GoodStateNoCode =>
           /\ flow_pc \in {"CodeReceived", "Failed"}
           /\ FlowTerminal => flow_result = (IF PageWritten THEN "MissingCode" ELSE "Io")
           /\ flow_exchanged = 0
    /\ (cb # None /\ cb[1].state = None /\ cb[1].code = None /\ FlowTerminal) =>
           flow_result = (IF PageWritten THEN "CsrfMismatch" ELSE "Io")

C21_Witness ==
    /\ GoodStateNoCode
    /\ flow_pc = "Failed"
    /\ flow_result = "MissingCode"
    /\ flow_exchanged = 0

\* C33: the 200 page is written for the first /callback request before its
\* state and code are validated: a flow that is about to validate, or that
\* failed with CsrfMismatch or MissingCode, has written the page; and when
\* the page could not be written the flow has failed with an I/O error and
\* attempted no exchange, whatever state and code the request carried.
C33_PageBeforeValidation ==
    /\ flow_pc = "CodeReceived" => PageWritten
    /\ flow_result \in {"CsrfMismatch", "MissingCode"} => PageWritten
    /\ (cb # None /\ ~PageWritten) =>
           /\ flow_pc = "Failed"
           /\ flow_result = "Io"
           /\ flow_exchanged = 0

\* The browser was shown the success page and the flow failed for want of a
\* state.
C33_Witness ==
    /\ PageWritten
    /\ flow_pc = "Failed"
    /\ flow_result = "CsrfMismatch"
    /\ cb[1].state = None

\* A request with the right state and a code whose page could not be written.
C33_WitnessIo ==
    /\ cb # None
    /\ validate(cb[1], csrf_state[1]) = "Ok"
    /\ flow_result = "Io"

\* ------------------------------------------------- claims: the accept loop
\* C20: while the flow waits for the redirect, a request for another path is
\* answered 404 and leaves it waiting, with the CSRF token and the PKCE verifier
\* as they were; the wait ends only with a /callback request or an I/O error,
\* never because time passes.
C20_Step ==
    flow_pc = "AwaitingRedirect" =>
        /\ csrf_state' = csrf_state
        /\ pkce_verifier' = pkce_verifier
        /\ \/ /\ flow_pc' = "AwaitingRedirect"
              /\ cb' = None
              /\ flow_result' = "Pending"
              /\ pages' \in {pages, Append(pages, "404")}
           \/ /\ flow_pc' = "CodeReceived"
              /\ cb' # None
              /\ pages' = Append(pages, "200")
           \/ /\ flow_pc' = "Failed"
              /\ flow_result' = "Io"
              /\ pages' = pages
C20_WaitsForCallback == [][C20_Step]_vars

\* A request for another path was answered, time has passed, and the flow
\* still waits with its CSRF token and verifier.
C20_Witness ==
    /\ flow_pc = "AwaitingRedirect"
    /\ pages # <<>>
    /\ pages[Len(pages)] = "404"
    /\ now > 0
    /\ csrf_state # None
    /\ pkce_verifier # None
    /\ cb = None

\* ------------------------------ process instances sharing the token file
\* Each instance of the program runs get_oauth2_bearer on the one tokens.json;
\* the tokio Mutex is per process, and load_tokens / save_tokens take no file
\* lock.
Procs == 1 .. NumProcs

IdleProc == [pc |-> "start", loaded |-> NoData, sent |-> None, resp |-> NoData,
             saveNo |-> 0, result |-> "Pending"]

RaceIdle ==
    /\ proc = [p \in Procs |-> IdleProc]
    /\ issued = 0

\* number of save_tokens calls that reached the file so far
SavesSoFar ==
    LET nos == {proc[q].saveNo : q \in Procs}
    IN CHOOSE n \in nos : \A m \in nos : m <= n

\* get_oauth2_bearer in one process, up to the exchange request
ProcLoad(p) ==
    /\ proc[p].pc = "start"
    /\ \E readOk \in BOOLEAN :
        LET l == load_tokens(file, readOk)
        IN CASE l.res # "Ok" ->
                  proc' = [proc EXCEPT ![p].pc = "done", ![p].result = l.res]
             [] l.res = "Ok" /\ l.data = None ->
                  proc' = [proc EXCEPT ![p].pc = "done", ![p].result = "NoAuthMethod"]
             [] l.res = "Ok" /\ l.data # None /\ needs_refresh(l.data[1], now) ->
                  proc' = [proc EXCEPT ![p].pc = "exchanging",
                                       ![p].loaded = l.data[1],
                                       ![p].sent = l.data[1].refresh_token]
             [] OTHER ->
                  proc' = [proc EXCEPT ![p].pc = "done",
                                       ![p].loaded = l.data[1],
                                       ![p].result = "Ok"]
    /\ UNCHANGED <<file, now, issued, flowVars, apiVars, credVars, callVars, moreVars, lateVars>>

\* the token endpoint answers the exchange of one process: an error, or a new
\* token
ProcExchange(p) ==
    /\ proc[p].pc = "exchanging"
    /\ \/ /\ proc' = [proc EXCEPT ![p].pc = "done", ![p].result = "Request"]
          /\ UNCHANGED issued
       \/ \E resp \in TokenResponses(issued + 1) :
            /\ proc' = [proc EXCEPT ![p].pc = "received",
                                    ![p].resp = refreshed_data(resp, proc[p].sent[1], now)]
            /\ issued' = issued + 1
    /\ UNCHANGED <<file, now, flowVars, apiVars, credVars, callVars, moreVars, lateVars>>

\* refresh_token in one process, after the response arrived: save_tokens
ProcSave(p) ==
    /\ proc[p].pc = "received"
    /\ \E outcome \in SaveOutcomes :
        /\ file' = save_tokens(file, proc[p].resp, outcome)
        /\ proc' = [proc EXCEPT ![p].pc = "done",
                                ![p].saveNo = IF outcome \in {"ok", "write_err"}
                                              THEN SavesSoFar + 1 ELSE 0,
                                ![p].result = save_result(outcome)]
    /\ UNCHANGED <<now, issued, flowVars, apiVars, credVars, callVars, moreVars, lateVars>>

\* ---------------------------------------------- claims: two process instances
\* C11: no lock orders the load-refresh-save of two process instances: a save
\* that returns Ok leaves the file holding exactly the saver's record, whatever
\* another instance wrote in between, so the later save wins.
C11_Step ==
    \A p \in Procs :
        (proc[p].pc = "received" /\ proc'[p].pc = "done" /\ proc'[p].result = "Ok")
            => file' = JsonFile(proc[p].resp)
C11_LastSaveWins == [][C11_Step]_vars

\* Two instances exchanged the same stored refresh token, and the record of the
\* earlier exchange was saved last, over the record of the later one.
C11_Witness ==
    \E p, q \in Procs :
        /\ p # q
        /\ proc[p].sent # None /\ proc[p].sent = proc[q].sent
        /\ proc[p].result = "Ok" /\ proc[q].result = "Ok"
        /\ proc[p].saveNo > proc[q].saveNo /\ proc[q].saveNo > 0
        /\ proc[p].resp.access_token < proc[q].resp.access_token
        /\ file = JsonFile(proc[p].resp)

\* --------------------------------------- load_credentials, AuthProvider::new
CredVarNames ==
    {"X_API_KEY", "X_API_SECRET", "X_ACCESS_TOKEN", "X_ACCESS_TOKEN_SECRET",
     "X_BEARER_TOKEN", "X_CLIENT_ID", "X_CLIENT_SECRET"}
OAuth1VarNames == {"X_API_KEY", "X_API_SECRET", "X_ACCESS_TOKEN", "X_ACCESS_TOKEN_SECRET"}

\* A variable of the process environment is unset, set to the empty string,
\* or set to a value.
Environments == [CredVarNames -> {None, Some(""), Some("e")}]

\* env_file_paths: 1 = ~/.config/xplorertui/.env, 2 = ~/.config/x-cli/.env,
\* 3 = ./.env; without a home directory only 3 is a candidate.
FirstPath(h) == IF h THEN 1 ELSE 3
PathsEnd == 4
FileValue(i) == <<"f1", "f2", "f3">>[i]

\* Environments with at most MaxEnvVars variables set.
SmallEnvironments ==
    {env \in Environments : Cardinality({v \in CredVarNames : env[v] # None}) <= MaxEnvVars}

\* Contents of the .env file at path i: a file that defines one variable, to
\* the empty string or to a value.
EnvFiles(i) ==
    {[v \in CredVarNames |-> IF v = d THEN x ELSE None] :
        d \in CredVarNames, x \in {Some(""), Some(FileValue(i))}}

\* A load in which the file's definitions replace the ones already set.
from_path_override(env, content) ==
    [v \in CredVarNames |-> IF content[v] # None THEN content[v] ELSE env[v]]

\* dotenvy::from_path: sets each variable the file defines unless it is set
from_path(env, content) ==
    [v \in CredVarNames |-> IF env[v] # None THEN env[v] ELSE content[v]]

\* A lookup that keeps empty strings.
get_allow_empty(env, name) == env[name]

\* get: std::env::var(name).ok().filter(|v| !v.is_empty())
get(env, name) == IF env[name] # None /\ env[name][1] # "" THEN env[name] ELSE None

\* CredentialSet built from the environment
CredentialSetOf(env) ==
    [oauth1 |-> IF \A v \in OAuth1VarNames : get(env, v) # None
                THEN Some([api_key |-> get(env, "X_API_KEY")[1],
                           api_secret |-> get(env, "X_API_SECRET")[1],
                           access_token |-> get(env, "X_ACCESS_TOKEN")[1],
                           access_token_secret |-> get(env, "X_ACCESS_TOKEN_SECRET")[1],
                           bearer_token |-> get(env, "X_BEARER_TOKEN")])
                ELSE None,
     oauth2 |-> IF get(env, "X_CLIENT_ID") # None
                THEN Some([client_id |-> get(env, "X_CLIENT_ID")[1],
                           client_secret |-> get(env, "X_CLIENT_SECRET")])
                ELSE None,
     bearer |-> IF get(env, "X_BEARER_TOKEN") # None
                THEN Some([bearer_token |-> get(env, "X_BEARER_TOKEN")[1]])
                ELSE None]

\* CredentialSet::default()
EmptyCredentialSet == [oauth1 |-> None, oauth2 |-> None, bearer |-> None]

\* A loader that returns whatever set it built.
load_credentials_unchecked(env) == [res |-> "Ok", creds |-> CredentialSetOf(env)]

\* load_credentials, after the .env files: the set, or NoCredentials
load_credentials(env) ==
    LET c == CredentialSetOf(env)
    IN IF c.oauth1 = None /\ c.oauth2 = None /\ c.bearer = None
       THEN [res |-> "NoCredentials", creds |-> EmptyCredentialSet]
       ELSE [res |-> "Ok", creds |-> c]

\* The order OAuth 1.0a > OAuth2 PKCE > Bearer-only.
detect_auth_method_oauth1_first(creds) ==
    IF creds.oauth1 # None THEN [res |-> "Ok", method |-> "OAuth1"]
    ELSE IF creds.oauth2 # None THEN [res |-> "Ok", method |-> "OAuth2Pkce"]
    ELSE IF creds.bearer # None THEN [res |-> "Ok", method |-> "BearerOnly"]
    ELSE [res |-> "NoAuthMethod", method |-> "none"]

\* detect_auth_method
detect_auth_method(creds) ==
    IF creds.oauth2 # None THEN [res |-> "Ok", method |-> "OAuth2Pkce"]
    ELSE IF creds.oauth1 # None THEN [res |-> "Ok", method |-> "OAuth1"]
    ELSE IF creds.bearer # None THEN [res |-> "Ok", method |-> "BearerOnly"]
    ELSE [res |-> "NoAuthMethod", method |-> "none"]

\* AuthProvider::new
AuthProviderNew(credentials) ==
    LET d == detect_auth_method(credentials)
    IN IF d.res = "Ok"
       THEN [res |-> "Ok", method |-> d.method, credentials |-> credentials]
       ELSE [res |-> d.res, method |-> "none", credentials |-> EmptyCredentialSet]

NoLoad == [res |-> "Pending", creds |-> EmptyCredentialSet]
NoProvider == [res |-> "Pending", method |-> "none", credentials |-> EmptyCredentialSet]

CredIdle ==
    /\ environ = [v \in CredVarNames |-> None]
    /\ env0 = environ
    /\ home = TRUE
    /\ nextPath = PathsEnd
    /\ lastFile = None
    /\ loaded_creds = NoLoad
    /\ provider = NoProvider

\* load_credentials, one turn of the loop over env_file_paths: the path does
\* not exist
SkipEnvFile ==
    /\ nextPath < PathsEnd
    /\ lastFile' = None
    /\ nextPath' = nextPath + 1
    /\ UNCHANGED <<file, now, flowVars, apiVars, raceVars, callVars, moreVars, lateVars, environ, env0, home,
                   loaded_creds, provider>>

\* load_credentials, one turn of the loop over env_file_paths: the path
\* exists and dotenvy::from_path loads it
LoadEnvFile ==
    /\ nextPath < PathsEnd
    /\ \E content \in EnvFiles(nextPath) :
        /\ lastFile' = Some(content)
        /\ environ' = from_path(environ, content)
    /\ nextPath' = nextPath + 1
    /\ UNCHANGED <<file, now, flowVars, apiVars, raceVars, callVars, moreVars, lateVars, env0, home,
                   loaded_creds, provider>>

\* load_credentials, after the loop
LoadCredentials ==
    /\ nextPath = PathsEnd
    /\ loaded_creds.res = "Pending"
    /\ loaded_creds' = load_credentials(environ)
    /\ UNCHANGED <<file, now, flowVars, apiVars, raceVars, callVars, moreVars, lateVars, environ, env0, home,
                   nextPath, lastFile, provider>>

\* main: AuthProvider::new(creds) on the set load_credentials returned
NewProvider ==
    /\ loaded_creds.res = "Ok"
    /\ provider.res = "Pending"
    /\ provider' = AuthProviderNew(loaded_creds.creds)
    /\ UNCHANGED <<file, now, flowVars, apiVars, raceVars, callVars, moreVars, lateVars, environ, env0, home,
                   nextPath, lastFile, loaded_creds>>

\* ------------------------------------------- claims: credentials, selection
Populated(slot) == slot # None
NonEmpty(v) == environ[v] # None /\ environ[v] # Some("")

\* C12 as stated: the provider selects OAuth1 whenever the signed-user slot is
\* populated, otherwise OAuth2Pkce when the client id is present, otherwise
\* BearerOnly.
C12_SignedUserFirst ==
    provider.res = "Ok" =>
        LET c == provider.credentials
        IN provider.method =
               IF Populated(c.oauth1) THEN "OAuth1"
               ELSE IF Populated(c.oauth2) THEN "OAuth2Pkce"
               ELSE "BearerOnly"

\* C12, amended: the provider selects OAuth2Pkce whenever the client id is
\* present, otherwise OAuth1 when the signed-user slot is populated, otherwise
\* BearerOnly; a set holding both selects OAuth2Pkce.
C12_PkceFirst ==
    provider.res = "Ok" =>
        LET c == provider.credentials
        IN provider.method =
               IF Populated(c.oauth2) THEN "OAuth2Pkce"
               ELSE IF Populated(c.oauth1) THEN "OAuth1"
               ELSE "BearerOnly"

C12_Witness ==
    /\ provider.res = "Ok"
    /\ Populated(provider.credentials.oauth1)
    /\ Populated(provider.credentials.oauth2)
    /\ provider.method = "OAuth2Pkce"

SlotOf(credentials, method) ==
    CASE method = "OAuth1" -> credentials.oauth1
      [] method = "OAuth2Pkce" -> credentials.oauth2
      [] method = "BearerOnly" -> credentials.bearer
      [] OTHER -> None

\* C13: on every set load_credentials returns Ok, AuthProvider::new succeeds
\* and the slot of the method it selects is populated; on the all-empty set,
\* which load_credentials never returns, it fails with NoAuthMethod.
C13_ProviderOk ==
    /\ loaded_creds.res = "Ok" => loaded_creds.creds # EmptyCredentialSet
    /\ (loaded_creds.res = "Ok" /\ provider.res # "Pending") =>
           /\ provider.res = "Ok"
           /\ provider.credentials = loaded_creds.creds
           /\ Populated(SlotOf(provider.credentials, provider.method))
    /\ AuthProviderNew(EmptyCredentialSet).res = "NoAuthMethod"

C13_Witness ==
    /\ provider.res = "Ok"
    /\ provider.method = "BearerOnly"
    /\ Populated(provider.credentials.bearer)

\* C14: load_credentials populates the signed-user slot iff all four OAuth 1.0a
\* variables are set and non-empty, the PKCE slot iff X_CLIENT_ID is, the
\* bearer slot iff X_BEARER_TOKEN is, and returns NoCredentials iff no slot is
\* populated.
C14_SlotsIffVars ==
    loaded_creds.res # "Pending" =>
        LET c == loaded_creds.creds
            one == \A v \in OAuth1VarNames : NonEmpty(v)
            two == NonEmpty("X_CLIENT_ID")
            app == NonEmpty("X_BEARER_TOKEN")
        IN /\ Populated(c.oauth1) <=> one
           /\ Populated(c.oauth2) <=> two
           /\ Populated(c.bearer) <=> app
           /\ loaded_creds.res = "NoCredentials" <=> ~(one \/ two \/ app)
           /\ loaded_creds.res \in {"Ok", "NoCredentials"}

\* Three of the four OAuth 1.0a variables hold a value, the fourth is set but
\* empty, and the set that came back has no signed-user slot.
C14_Witness ==
    /\ loaded_creds.res = "Ok"
    /\ environ["X_ACCESS_TOKEN_SECRET"] = Some("")
    /\ \A v \in OAuth1VarNames \ {"X_ACCESS_TOKEN_SECRET"} : NonEmpty(v)
    /\ ~Populated(loaded_creds.creds.oauth1)
    /\ Populated(loaded_creds.creds.bearer)

\* C15: a variable set in the process environment keeps that value; loading a
\* .env file gives a variable the file's value only if nothing - the
\* environment or a file of higher priority - has set it before.
C15_EnvWins == \A v \in CredVarNames : env0[v] # None => environ[v] = env0[v]
C15_Step ==
    \A v \in CredVarNames :
        environ'[v] =
            IF environ[v] # None THEN environ[v]
            ELSE IF nextPath' # nextPath /\ lastFile' # None THEN lastFile'[1][v]
            ELSE None
C15_Precedence == []C15_EnvWins /\ [][C15_Step]_vars

\* The value used comes from ~/.config/xplorertui/.env although ./.env defines
\* the variable too.
C15_Witness ==
    /\ loaded_creds.res = "Ok"
    /\ lastFile # None
    /\ \E v \in CredVarNames :
        /\ env0[v] = None
        /\ environ[v] = Some(FileValue(1))
        /\ lastFile[1][v] = Some(FileValue(3))
    /\ Populated(loaded_creds.creds.oauth2)
    /\ loaded_creds.creds.oauth2[1].client_id = FileValue(1)

\* ------------------------------------------- bearer_get, oauth_get, one call
\* The Authorization header: a static bearer token, a stored or refreshed
\* OAuth 2.0 access token, or an OAuth 1.0a signature.
NoHeader == [kind |-> "none", static |-> "", access |-> -1]
StaticHeader(bt) == [kind |-> "static", static |-> bt, access |-> -1]
OAuth2Header(a) == [kind |-> "oauth2", static |-> "", access |-> a]
SignedHeader == [kind |-> "signed", static |-> "", access |-> -1]

\* AuthProvider::get_bearer_header
get_bearer_header(p) ==
    IF p.credentials.oauth1 # None /\ p.credentials.oauth1[1].bearer_token # None
    THEN [res |-> "Ok", header |-> StaticHeader(p.credentials.oauth1[1].bearer_token[1])]
    ELSE IF p.credentials.bearer # None
    THEN [res |-> "Ok", header |-> StaticHeader(p.credentials.bearer[1].bearer_token)]
    ELSE [res |-> "NoAuthMethod", header |-> NoHeader]

\* AuthProvider::get_oauth_header
get_oauth_header(p) ==
    IF p.credentials.oauth1 # None
    THEN [res |-> "Ok", header |-> SignedHeader]
    ELSE [res |-> "OAuth1Required", header |-> NoHeader]

\* A dispatch that sends app-context calls to the static bearer token.
uses_oauth2_bearer_user_only(kind, method) == method = "OAuth2Pkce" /\ kind = "oauth_get"

\* bearer_get, oauth_get: the arm `AuthMethod::OAuth2Pkce => get_oauth2_bearer`
uses_oauth2_bearer(kind, method) == method = "OAuth2Pkce"

\* A dispatch that asks for the signed header on every user-context call.
static_header_user_scoped(kind, p) ==
    IF kind = "oauth_get" THEN get_oauth_header(p) ELSE get_bearer_header(p)

\* bearer_get, oauth_get: the arms for OAuth1 and BearerOnly
static_header(kind, p) ==
    IF kind = "oauth_get" /\ p.method = "OAuth1"
    THEN get_oauth_header(p)
    ELSE get_bearer_header(p)

\* HTTP responses. x-rate-limit-reset is absent, not a decimal i64 ("invalid"),
\* a decimal i64 that DateTime::from_timestamp rejects ("out_of_range"), or an
\* epoch; the body is JSON of the expected type, anything else, or cannot be
\* read.
Statuses == {200, 304, 404, 429, 500}
ResetHeaders ==
    {[kind |-> "absent", value |-> -1], [kind |-> "invalid", value |-> -1],
     [kind |-> "out_of_range", value |-> 99], [kind |-> "epoch", value |-> 5]}
CountHeaders == {"absent", "invalid"}
Bodies ==
    {[kind |-> "valid", text |-> "json"], [kind |-> "invalid", text |-> "html"],
     [kind |-> "unreadable", text |-> ""]}
Responses ==
    [status : Statuses, reset : ResetHeaders, remaining : CountHeaders, body : Bodies]
NoResponse ==
    [status |-> 0, reset |-> [kind |-> "absent", value |-> -1], remaining |-> "absent",
     body |-> [kind |-> "unreadable", text |-> ""]]

\* A parse that takes whatever the header holds.
parse_reset_unchecked(h) == IF h.kind = "absent" THEN None ELSE Some(h.value)

\* handle_response: get, to_str, parse::<i64>, DateTime::from_timestamp
parse_reset(h) == IF h.kind = "epoch" THEN Some(h.value) ELSE None

is_success(status) == status >= 200 /\ status <= 299

Outcome(tag, reset_at, status, body) ==
    [tag |-> tag, reset_at |-> reset_at, status |-> status, body |-> body]
NoOutcome == Outcome("Pending", -1, 0, "")
ErrOutcome(e) == Outcome(e, -1, 0, "")

\* handle_response
handle_response(resp, t) ==
    LET reset_at == parse_reset(resp.reset)
    IN IF resp.status = 429
       THEN Outcome("RateLimited", IF reset_at # None THEN reset_at[1] ELSE t, 0, "")
       ELSE IF ~is_success(resp.status)
       THEN Outcome("ApiError", -1, resp.status,
                    IF resp.body.kind = "unreadable" THEN "" ELSE resp.body.text)
       ELSE IF resp.body.kind = "unreadable" THEN ErrOutcome("Http")
       ELSE IF resp.body.kind = "valid" THEN Outcome("Ok", -1, 0, resp.body.text)
       ELSE Outcome("Deserialize", -1, 0, resp.body.text)

\* A caller that sends the request again when it was rate limited.
after_response_retry(outcome) == IF outcome.tag = "RateLimited" THEN "sent" ELSE "done"

\* bearer_get, oauth_get: the result of handle_response is returned as it is
after_response(outcome) == "done"

IdleCall == [pc |-> "idle", kind |-> "none", loaded |-> NoData, header |-> NoHeader,
             exch |-> 0, sent |-> 0,
             resp |-> NoResponse, respAt |-> -1, doneAt |-> -1, outcome |-> NoOutcome]

CallIdle == call = IdleCall

CallKinds == {"bearer_get", "oauth_get"}

CallEnd(c, outcome) == [c EXCEPT !.pc = "done", !.doneAt = now, !.outcome = outcome]
CallSend(c, header) == [c EXCEPT !.pc = "sent", !.header = header, !.sent = c.sent + 1]

\* bearer_get / oauth_get up to the first await: the header of the active
\* method, or get_oauth2_bearer up to the exchange
Authorize ==
    /\ call.pc = "idle"
    /\ provider.res = "Ok"
    /\ \E kind \in CallKinds, readOk \in BOOLEAN :
        LET c == [call EXCEPT !.kind = kind]
        IN IF uses_oauth2_bearer(kind, provider.method)
           THEN LET l == load_tokens(file, readOk)
                IN CASE provider.credentials.oauth2 = None ->
                          call' = CallEnd(c, ErrOutcome("NoAuthMethod"))
                     [] provider.credentials.oauth2 # None /\ l.res # "Ok" ->
                          call' = CallEnd(c, ErrOutcome(l.res))
                     [] provider.credentials.oauth2 # None /\ l.res = "Ok"
                            /\ l.data = None ->
                          call' = CallEnd(c, ErrOutcome("NoAuthMethod"))
                     [] provider.credentials.oauth2 # None /\ l.res = "Ok"
                            /\ l.data # None /\ needs_refresh(l.data[1], now) ->
                          call' = [c EXCEPT !.pc = "refreshing", !.loaded = l.data[1],
                                            !.exch = c.exch + 1]
                     [] OTHER ->
                          call' = CallSend(c, OAuth2Header(l.data[1].access_token))
           ELSE LET h == static_header(kind, provider)
                IN IF h.res = "Ok"
                   THEN call' = CallSend(c, h.header)
                   ELSE call' = CallEnd(c, ErrOutcome(h.res))
    /\ UNCHANGED <<file, now, flowVars, apiVars, raceVars, credVars, moreVars, lateVars>>

\* A call that falls back on the stored access token when the exchange fails.
CallRefreshDone_fallback ==
    /\ call.pc = "refreshing"
    /\ \/ /\ call' = CallSend(call, OAuth2Header(call.loaded.access_token))
          /\ UNCHANGED file
       \/ \E resp \in TokenResponses(1), outcome \in SaveOutcomes :
            LET data == refreshed_data(resp, call.loaded.refresh_token[1], now)
            IN /\ file' = save_tokens(file, data, outcome)
               /\ call' = IF outcome = "ok"
                          THEN CallSend(call, OAuth2Header(
                                   bearer_of_refreshed(data, call.loaded)))
                          ELSE CallEnd(call, ErrOutcome(save_result(outcome)))
    /\ UNCHANGED <<now, flowVars, apiVars, raceVars, credVars, moreVars, lateVars>>

\* refresh_token after the exchange, then the request
CallRefreshDone ==
    /\ call.pc = "refreshing"
    /\ \/ /\ call' = CallEnd(call, ErrOutcome("Request"))
          /\ UNCHANGED file
       \/ \E resp \in TokenResponses(1), outcome \in SaveOutcomes :
            LET data == refreshed_data(resp, call.loaded.refresh_token[1], now)
            IN /\ file' = save_tokens(file, data, outcome)
               /\ call' = IF outcome = "ok"
                          THEN CallSend(call, OAuth2Header(
                                   bearer_of_refreshed(data, call.loaded)))
                          ELSE CallEnd(call, ErrOutcome(save_result(outcome)))
    /\ UNCHANGED <<now, flowVars, apiVars, raceVars, credVars, moreVars, lateVars>>

\* send().await? and handle_response: a transport error, or a response
CallResponse ==
    /\ call.pc = "sent"
    /\ \/ call' = [CallEnd(call, ErrOutcome("Http")) EXCEPT !.respAt = now]
       \/ \E resp \in Responses :
            LET o == handle_response(resp, now)
                next == after_response(o)
            IN call' = [call EXCEPT !.pc = next,
                                    !.resp = resp,
                                    !.respAt = now,
                                    !.doneAt = IF next = "done" THEN now ELSE -1,
                                    !.outcome = o,
                                    !.sent = IF next = "sent" THEN call.sent + 1
                                             ELSE call.sent]
    /\ UNCHANGED <<file, now, flowVars, apiVars, raceVars, credVars, moreVars, lateVars>>

\* ------------------------------------------- claims: one bearer_get / oauth_get
\* C16 as stated: a user-context call is never authorized by the static bearer
\* token; with BearerOnly active it sends no request and fails with
\* OAuth1Required or NoAuthMethod.
C16_NoStaticOnUserContext ==
    call.kind = "oauth_get" =>
        /\ call.header.kind # "static"
        /\ provider.method = "BearerOnly" =>
               /\ call.sent = 0
               /\ call.pc = "done" => call.outcome.tag \in {"OAuth1Required", "NoAuthMethod"}

\* C16, amended: a user-context call is authorized with the credential of the
\* active method - the OAuth 1.0a signature, the stored or refreshed OAuth 2.0
\* token - and with BearerOnly active it falls back to the static bearer token
\* and sends the request; it never fails with OAuth1Required or NoAuthMethod
\* there.
C16_UserContextHeader ==
    call.kind = "oauth_get" =>
        /\ call.sent > 0 =>
               CASE provider.method = "OAuth1" -> call.header = SignedHeader
                 [] provider.method = "OAuth2Pkce" -> call.header.kind = "oauth2"
                 [] OTHER ->
                      call.header =
                          StaticHeader(provider.credentials.bearer[1].bearer_token)
        /\ provider.method = "BearerOnly" =>
               /\ call.sent = 1
               /\ call.outcome.tag \notin {"OAuth1Required", "NoAuthMethod"}

C16_Witness ==
    /\ call.kind = "oauth_get"
    /\ provider.method = "BearerOnly"
    /\ call.pc = "sent"
    /\ call.header.kind = "static"

\* get_bearer_header would succeed: a static bearer token is available.
StaticBearerAvailable == get_bearer_header(provider).res = "Ok"

\* C17 as stated: an app-context call is authorized with the static bearer
\* token whenever one is available, whichever method is active.
C17_StaticBearerPreferred ==
    (call.kind = "bearer_get" /\ StaticBearerAvailable /\ call.pc # "idle") =>
        /\ call.pc \in {"sent", "done"}
        /\ call.sent = 1
        /\ call.header = get_bearer_header(provider).header

\* C17, amended: an app-context call is authorized with the static bearer
\* token when OAuth1 or BearerOnly is active and one is available; with
\* OAuth2Pkce active it is authorized with the stored or refreshed OAuth 2.0
\* access token, also when a static bearer token is available.
C17_AppContextHeader ==
    call.kind = "bearer_get" =>
        /\ (provider.method # "OAuth2Pkce" /\ StaticBearerAvailable) =>
               /\ call.sent = 1
               /\ call.header = get_bearer_header(provider).header
        /\ (provider.method = "OAuth2Pkce" /\ call.sent > 0) => call.header.kind = "oauth2"
        /\ (provider.method = "OAuth2Pkce" /\ call.sent = 0 /\ call.pc = "done") =>
               call.outcome.tag \in {"NoAuthMethod", "Io", "Json", "Request"}

C17_Witness ==
    /\ call.kind = "bearer_get"
    /\ provider.method = "OAuth2Pkce"
    /\ StaticBearerAvailable
    /\ call.pc = "sent"
    /\ call.header.kind = "oauth2"

Answered == call.pc = "done" /\ call.resp # NoResponse

\* The reset time a 429 carries: the header's epoch if it has one, else the
\* time the response was handled.
ResetOf(c) == IF c.resp.reset.kind = "epoch" THEN c.resp.reset.value ELSE c.respAt

\* What handle_response does with 429 and with the other non-success
\* statuses, whatever the rate-limit headers hold.
ErrorStatusOutcome ==
    /\ call.resp.status = 429 =>
           /\ call.outcome.tag = "RateLimited"
           /\ call.outcome.reset_at = ResetOf(call)
    /\ (call.resp.status # 429 /\ ~is_success(call.resp.status)) =>
           /\ call.outcome.tag = "ApiError"
           /\ call.outcome.status = call.resp.status

\* C18 as stated: the status decides the outcome; a success status gives the
\* deserialized body, or Deserialize with the raw body.
C18_OutcomeByStatus ==
    Answered =>
        /\ ErrorStatusOutcome
        /\ is_success(call.resp.status) =>
               \/ call.outcome.tag = "Ok" /\ call.resp.body.kind = "valid"
               \/ /\ call.outcome.tag = "Deserialize"
                  /\ call.resp.body.kind # "valid"
                  /\ call.outcome.body = call.resp.body.text

\* C18, amended: 429 gives RateLimited with the header's epoch or the current
\* time, any other non-success status gives ApiError with that status, and a
\* success status gives the deserialized body, Deserialize with the raw body
\* when it does not parse, or Http when the body cannot be read; the rate-limit
\* headers change none of this.
C18_OutcomeByStatusOrHttp ==
    Answered =>
        /\ ErrorStatusOutcome
        /\ is_success(call.resp.status) =>
               CASE call.resp.body.kind = "valid" -> call.outcome.tag = "Ok"
                 [] call.resp.body.kind = "invalid" ->
                      /\ call.outcome.tag = "Deserialize"
                      /\ call.outcome.body = call.resp.body.text
                 [] OTHER -> call.outcome.tag = "Http"

\* A 429 whose x-rate-limit-reset does not parse, handled after time has
\* passed: reset_at is the time of handling.
C18_Witness ==
    /\ Answered
    /\ call.resp.status = 429
    /\ call.resp.reset.kind = "invalid"
    /\ call.respAt > 0
    /\ call.outcome.tag = "RateLimited"
    /\ call.outcome.reset_at = call.respAt

\* C19: one bearer_get / oauth_get makes at most one refresh exchange and
\* sends at most one request; once the request failed or was answered the call
\* has returned, at that instant, with that outcome.
C19_AtMostOnce ==
    /\ call.exch <= 1
    /\ call.sent <= 1
    /\ call.respAt >= 0 =>
           /\ call.pc = "done"
           /\ call.sent = 1
           /\ call.doneAt = call.respAt

C19_Witness ==
    /\ call.pc = "done"
    /\ call.exch = 1
    /\ call.sent = 1
    /\ call.outcome.tag = "RateLimited"

\* C34: a call whose refresh exchange failed has returned the OAuth2 request
\* error with no request sent and no header built, and the token file is the
\* record the call loaded; so a call that attempted an exchange and did send
\* a request does not carry the access token it had loaded.
C34_FailedRefresh ==
    /\ call.outcome.tag = "Request" =>
           /\ call.pc = "done"
           /\ call.exch = 1
           /\ call.sent = 0
           /\ call.header = NoHeader
           /\ file = JsonFile(call.loaded)
    /\ (call.exch = 1 /\ call.sent = 1) =>
           /\ call.header.kind = "oauth2"
           /\ call.header.access # call.loaded.access_token

C34_Witness ==
    /\ call.pc = "done"
    /\ call.outcome.tag = "Request"
    /\ call.loaded.refresh_token # None
    /\ file.data.access_token = call.loaded.access_token

\* ---------------------------------------------------- claims: the token file
\* A PKCE call that ended before any exchange and any request: it ended in
\* get_oauth2_bearer at load_tokens, and the file is still the one it loaded.
EndedAtLoad ==
    /\ provider.method = "OAuth2Pkce"
    /\ call.pc = "done"
    /\ call.exch = 0
    /\ call.sent = 0

\* C23 as stated: load_tokens gives Ok(None) exactly when the file does not
\* exist and a Json error when the file exists and does not hold a token
\* record, so the call fails with Json instead of NoAuthMethod.
C23_MalformedIsJson ==
    EndedAtLoad =>
        /\ call.outcome.tag = "NoAuthMethod" <=> file.kind = "absent"
        /\ file.kind = "garbage" => call.outcome.tag = "Json"

\* C23, amended: load_tokens gives Ok(None) exactly when the file does not
\* exist; when the file exists and does not hold a token record it gives an
\* error - Json when the content was read and does not parse, Io when it could
\* not be read as text - never Ok(None), so the call fails before any request.
C23_MalformedIsError ==
    /\ EndedAtLoad =>
           /\ call.outcome.tag = "NoAuthMethod" <=> file.kind = "absent"
           /\ file.kind = "garbage" => call.outcome.tag \in {"Json", "Io"}
           /\ call.outcome.tag \in {"NoAuthMethod", "Json", "Io"}
    /\ (provider.method = "OAuth2Pkce" /\ call.pc # "idle" /\ call.exch = 0
            /\ file.kind # "json") => EndedAtLoad

C23_Witness ==
    /\ EndedAtLoad
    /\ file.kind = "garbage"
    /\ call.outcome.tag = "Json"

\* ------------------------------------- flows binding the one callback port
\* Instances of start_pkce_flow on the same fixed port. The listener lives
\* until the function returns; what happens between the bind and the return is
\* the flow of SpecPkce, reduced here to its result.
Flows == 1 .. NumFlows

IdleFlow == [pc |-> "Idle", bindErr |-> "none", sawHolder |-> 0, result |-> "Pending",
             csrf |-> None, browser |-> FALSE, writes |-> 0]

ListenersIdle == listeners = [holder |-> 0, flows |-> [f \in Flows |-> IdleFlow]]

\* TcpListener::bind on 127.0.0.1:port: while a listener holds the port the
\* bind fails with AddrInUse; otherwise it succeeds, or fails because a program
\* outside the model holds the port, or for another reason
bind_outcomes(holder) ==
    IF holder # 0 THEN {"AddrInUse"} ELSE {"ok", "AddrInUse", "other"}

\* A mapping that reports every bind failure as Io.
bind_error_io(kind) == "Io"

\* map_err of the bind: PortInUse(port) for AddrInUse, Io otherwise
bind_error(kind) == IF kind = "AddrInUse" THEN "PortInUse" ELSE "Io"

FlowResults == {"Ok", "Io", "CsrfMismatch", "MissingCode", "Request"}

\* TcpListener::bind(..).await.map_err(..)?
FlowBind(f) ==
    /\ listeners.flows[f].pc = "Idle"
    /\ \E o \in bind_outcomes(listeners.holder) :
        IF o = "ok"
        THEN listeners' = [listeners EXCEPT !.holder = f,
                                            !.flows[f].pc = "ListenerBound",
                                            !.flows[f].sawHolder = listeners.holder]
        ELSE listeners' = [listeners EXCEPT !.flows[f].pc = "BindFailed",
                                            !.flows[f].bindErr = o,
                                            !.flows[f].sawHolder = listeners.holder,
                                            !.flows[f].result = bind_error(o)]
    /\ UNCHANGED <<file, now, flowVars, apiVars, raceVars, credVars, callVars, lateVars, signer, tui,
                   scroll, store>>

\* PKCE challenge, CSRF token, authorization URL, open::that
FlowOpenBrowser(f) ==
    /\ listeners.flows[f].pc = "ListenerBound"
    /\ \E c \in CsrfTokens :
        listeners' = [listeners EXCEPT !.flows[f].pc = "AwaitingRedirect",
                                       !.flows[f].csrf = Some(c),
                                       !.flows[f].browser = TRUE]
    /\ UNCHANGED <<file, now, flowVars, apiVars, raceVars, credVars, callVars, lateVars, signer, tui,
                   scroll, store>>

\* the accept loop, validation and exchange end; the function returns and the
\* listener is dropped
FlowReturn(f) ==
    /\ listeners.flows[f].pc = "AwaitingRedirect"
    /\ \E res \in FlowResults :
        /\ listeners' = [listeners EXCEPT !.holder = 0,
                                          !.flows[f].pc = "Returned",
                                          !.flows[f].result = res,
                                          !.flows[f].writes =
                                              IF res = "Ok" THEN 1 ELSE 0]
        /\ file' = IF res = "Ok" THEN JsonFile(TokenData(f, None, None)) ELSE file
    /\ UNCHANGED <<now, flowVars, apiVars, raceVars, credVars, callVars, lateVars, signer, tui,
                   scroll, store>>

\* ------------------------------------------------------ claims: bind errors
\* C22: a bind that fails with AddrInUse makes the flow return PortInUse, any
\* other bind failure Io; the flow has then generated no CSRF token, opened no
\* browser and written nothing; a flow that binds while another flow holds the
\* listener of the port fails with PortInUse.
C22_BindFailure ==
    \A f \in Flows :
        LET fl == listeners.flows[f]
        IN /\ fl.pc = "BindFailed" =>
                  /\ fl.result = (IF fl.bindErr = "AddrInUse" THEN "PortInUse" ELSE "Io")
                  /\ fl.bindErr # "none"
                  /\ fl.csrf = None
                  /\ ~fl.browser
                  /\ fl.writes = 0
           /\ fl.sawHolder # 0 => (fl.pc = "BindFailed" /\ fl.result = "PortInUse")
           /\ fl.pc \in {"ListenerBound", "AwaitingRedirect"} <=> listeners.holder = f

\* A second flow failed with PortInUse while the first waits for its redirect.
C22_Witness ==
    \E f, g \in Flows :
        /\ f # g
        /\ listeners.flows[g].pc = "AwaitingRedirect"
        /\ listeners.holder = g
        /\ listeners.flows[f].pc = "BindFailed"
        /\ listeners.flows[f].sawHolder = g
        /\ listeners.flows[f].result = "PortInUse"

\* ---------------------------------------- save_tokens, load_tokens in turn
\* Records a caller can save.
TokenRecords ==
    {TokenData(a, r, e) : a \in {1, 2}, r \in {None, Some(1), Some(2)},
                          e \in {None, Some(0), Some(REFRESH_SKEW + 1)}}

NotLoaded == [res |-> "Pending", data |-> None]

StoreIdle == store = [saved |-> None, saves |-> 0, loaded |-> NotLoaded]

\* save_tokens(&data)
StoreSave ==
    /\ store.saves < MaxSaves
    /\ \E data \in TokenRecords, outcome \in SaveOutcomes :
        /\ file' = save_tokens(file, data, outcome)
        /\ store' = [saved |-> CASE outcome = "ok" -> Some(data)
                                 [] outcome = "write_err" -> None
                                 [] OTHER -> store.saved,
                     saves |-> store.saves + 1,
                     loaded |-> NotLoaded]
    /\ UNCHANGED <<now, flowVars, apiVars, raceVars, credVars, callVars, lateVars, listeners, signer,
                   tui, scroll>>

\* load_tokens()
StoreLoad ==
    /\ \E readOk \in BOOLEAN : store' = [store EXCEPT !.loaded = load_tokens(file, readOk)]
    /\ UNCHANGED <<file, now, flowVars, apiVars, raceVars, credVars, callVars, lateVars, listeners,
                   signer, tui, scroll>>

\* C24: a load that follows a successful save, with no write in between, and
\* that can read the file, returns Some of the record that save was given,
\* all three fields as they were; after several saves it returns the record
\* of the last one.
C24_RoundTrip ==
    (store.saved # None /\ store.loaded.res \notin {"Pending", "Io"}) =>
        /\ store.loaded.res = "Ok"
        /\ store.loaded.data = store.saved
        /\ store.loaded.data[1].access_token = store.saved[1].access_token
        /\ store.loaded.data[1].refresh_token = store.saved[1].refresh_token
        /\ store.loaded.data[1].expires_at = store.saved[1].expires_at

\* Two saves; the second record, with an expiry and without a refresh token,
\* is what the load returns.
C24_Witness ==
    /\ store.saves = 2
    /\ store.saved # None
    /\ store.saved[1].refresh_token = None
    /\ store.saved[1].expires_at # None
    /\ store.loaded.res = "Ok"
    /\ store.loaded.data = store.saved
    /\ file0.kind = "json"
    /\ file0.data # store.saved[1]

\* ------------------------------------------------- OAuth 1.0a request signing
\* Strings are sequences of character codes, so that percent-encoding and the
\* order of strings are computed as the code computes them.

\* The string literals of generate_oauth_header ("oauth_consumer_key", ...,
\* "HMAC-SHA1", "1.0") and the base of the request URL used here
\* ("https://api.x.com/2/users/me").
Lit ==
    [oauth_consumer_key |-> 
         <<111, 97, 117, 116, 104, 95, 99, 111, 110, 115, 117, 109, 101, 114, 95, 107, 101, 121>>,
     oauth_nonce |-> <<111, 97, 117, 116, 104, 95, 110, 111, 110, 99, 101>>,
     oauth_signature |-> 
         <<111, 97, 117, 116, 104, 95, 115, 105, 103, 110, 97, 116, 117, 114, 101>>,
     oauth_signature_method |-> 
         <<111, 97, 117, 116, 104, 95, 115, 105, 103, 110, 97, 116, 117, 114, 101, 95, 109, 101, 116, 104, 111, 100>>,
     oauth_timestamp |-> 
         <<111, 97, 117, 116, 104, 95, 116, 105, 109, 101, 115, 116, 97, 109, 112>>,
     oauth_token |-> <<111, 97, 117, 116, 104, 95, 116, 111, 107, 101, 110>>,
     oauth_version |-> 
         <<111, 97, 117, 116, 104, 95, 118, 101, 114, 115, 105, 111, 110>>,
     hmac_sha1 |-> <<72, 77, 65, 67, 45, 83, 72, 65, 49>>,
     version |-> <<49, 46, 48>>,
     base_url |-> 
         <<104, 116, 116, 112, 115, 58, 47, 47, 97, 112, 105, 46, 120, 46, 99, 111, 109, 47, 50, 47, 117, 115, 101, 114, 115, 47, 109, 101>>]

\* ENCODE_SET: everything but ALPHA / DIGIT / "-" / "." / "_" / "~" is encoded.
Unreserved(c) ==
    \/ c \in 48 .. 57
    \/ c \in 65 .. 90
    \/ c \in 97 .. 122
    \/ c \in {45, 46, 95, 126}

\* percent_encode: "%XX", in upper-case hexadecimal, for a byte of ENCODE_SET
RECURSIVE percent_encode(_)
percent_encode(s) ==
    LET hex(d) == IF d < 10 THEN 48 + d ELSE 55 + d
        half == Len(s) \div 2
    IN IF s = <<>> THEN <<>>
       ELSE IF Len(s) = 1
       THEN IF Unreserved(s[1]) THEN s ELSE <<37, hex(s[1] \div 16), hex(s[1] % 16)>>
       ELSE percent_encode(SubSeq(s, 1, half)) \o percent_encode(SubSeq(s, half + 1, Len(s)))

\* The order of String: byte by byte, a proper prefix first.
RECURSIVE Less(_, _)
Less(a, b) ==
    IF b = <<>> THEN FALSE
    ELSE IF a = <<>> THEN TRUE
    ELSE IF a[1] # b[1] THEN a[1] < b[1]
    ELSE Less(Tail(a), Tail(b))

\* The order of (String, String): by key, then by value.
PairLess(p, q) == Less(p[1], q[1]) \/ (p[1] = q[1] /\ Less(p[2], q[2]))

\* Vec<(String, String)>::sort
RECURSIVE sort(_)
sort(ps) ==
    IF ps = <<>> THEN <<>>
    ELSE LET rest == sort(Tail(ps))
             x == Head(ps)
             k == Cardinality({i \in 1 .. Len(rest) : PairLess(rest[i], x)})
         IN SubSeq(rest, 1, k) \o <<x>> \o SubSeq(rest, k + 1, Len(rest))

\* The pair of encoded key and encoded value.
EncodedPair(p) == <<percent_encode(p[1]), percent_encode(p[2])>>

\* param_string: "k=v" of the encoded pairs, joined with "&"
RECURSIVE param_string(_)
param_string(ps) ==
    IF ps = <<>> THEN <<>>
    ELSE EncodedPair(ps[1])[1] \o <<61>> \o EncodedPair(ps[1])[2]
         \o (IF Len(ps) = 1 THEN <<>> ELSE <<38>> \o param_string(Tail(ps)))

\* The credentials of the signing runs: "ck", "c s", "at", "t+s".
SignCreds ==
    [api_key |-> <<99, 107>>, api_secret |-> <<99, 32, 115>>,
     access_token |-> <<97, 116>>, access_token_secret |-> <<116, 43, 115>>]

\* Caller-supplied parameters: ("aa", "1"), ("a|", "1"), ("oauth_token", " ").
ExtraPairs ==
    {<<<<97, 97>>, <<49>>>>, <<<<97, 124>>, <<49>>>>, <<Lit.oauth_token, <<32>>>>}

\* Parameters of the query string of the URL: ("a|", " "), ("aa", "1").
UrlPairs == {<<<<97, 124>>, <<32>>>>, <<<<97, 97>>, <<49>>>>}

\* The arguments of a call: method ("get" or "GET"), URL (its base and its
\* query pairs as query_pairs() yields them), credentials, extra parameters.
SignArgs ==
    [method : {<<103, 101, 116>>, <<71, 69, 84>>},
     query : SeqsUpTo(UrlPairs, 1),
     creds : {SignCreds},
     params : {None} \cup {Some(ps) : ps \in SeqsUpTo(ExtraPairs, MaxPairs)}]

\* generate_nonce: lower-case hexadecimal of random bytes ("00", "af")
Nonces == {<<48, 48>>, <<97, 102>>}

\* generate_timestamp: the seconds of the clock, in decimal
Timestamps ==
    {IF t < 10 THEN <<48 + t>> ELSE <<48 + (t \div 10), 48 + (t % 10)>> : t \in 0 .. MaxTime}

\* A header built from every parameter of the signature base.
header_parts_all(oauth_params, all_params, signature) ==
    LET signed == sort(Append(all_params, <<Lit.oauth_signature, signature>>))
    IN [i \in 1 .. Len(signed) |-> EncodedPair(signed[i])]

\* steps 8 and 9: the signature joins the protocol parameters, they are
\* sorted, and each is rendered as encoded key = "encoded value"
header_parts(oauth_params, all_params, signature) ==
    LET signed == sort(Append(oauth_params, <<Lit.oauth_signature, signature>>))
    IN [i \in 1 .. Len(signed) |-> EncodedPair(signed[i])]

\* generate_oauth_header from step 1 on, for the nonce and the timestamp it
\* drew. HMAC-SHA1 and base64 are not computed: the signature stands for
\* them as the key, "+", and the base string.
signed_header(nonce, timestamp, args) ==
    LET oauth_params ==
            << <<Lit.oauth_consumer_key, args.creds.api_key>>,
               <<Lit.oauth_nonce, nonce>>,
               <<Lit.oauth_signature_method, Lit.hmac_sha1>>,
               <<Lit.oauth_timestamp, timestamp>>,
               <<Lit.oauth_token, args.creds.access_token>>,
               <<Lit.oauth_version, Lit.version>> >>
        extra == IF args.params = None THEN <<>> ELSE args.params[1]
        all_params == sort(oauth_params \o extra \o args.query)
        to_uppercase(m) == [i \in 1 .. Len(m) |-> IF m[i] \in 97 .. 122 THEN m[i] - 32 ELSE m[i]]
        base_string ==
            to_uppercase(args.method) \o <<38>> \o percent_encode(Lit.base_url)
            \o <<38>> \o percent_encode(param_string(all_params))
        signing_key ==
            percent_encode(args.creds.api_secret) \o <<38>>
            \o percent_encode(args.creds.access_token_secret)
        signature == signing_key \o <<43>> \o base_string
    IN [nonce |-> nonce, timestamp |-> timestamp, all_params |-> all_params,
        base_string |-> base_string,
        header |-> header_parts(oauth_params, all_params, signature)]

SignerIdle ==
    signer = [args |-> [method |-> <<>>, query |-> <<>>, creds |-> SignCreds, params |-> None],
              runs |-> <<>>]

\* generate_oauth_header(method, url, creds, params): a first call, and the
\* same call made once more
generate_oauth_header ==
    /\ Len(signer.runs) < 2
    /\ \E args \in (IF signer.runs = <<>> THEN SignArgs ELSE {signer.args}),
          nonce \in Nonces, timestamp \in Timestamps :
        signer' = [args |-> args,
                   runs |-> Append(signer.runs, signed_header(nonce, timestamp, args))]
    /\ UNCHANGED <<file, now, flowVars, apiVars, raceVars, credVars, callVars, lateVars, listeners,
                   tui, scroll, store>>


\* ------------------------------------------------------- claims: signing
\* The caller's pairs of a call: extra parameters, then query parameters.
CallerPairs == (IF signer.args.params = None THEN <<>> ELSE signer.args.params[1]) \o signer.args.query

\* C25: the pairs of the parameter string are in the order of their
\* percent-encoded forms, also where that differs from the raw order.
C25_EncodedOrder ==
    \A n \in 1 .. Len(signer.runs) :
        LET ps == signer.runs[n].all_params
        IN \A i, j \in 1 .. Len(ps) :
            i < j => ~PairLess(EncodedPair(ps[j]), EncodedPair(ps[i]))

\* C26: the caller can fix every input of signing, nonce and timestamp among
\* them: a call repeated with the same arguments returns the same header.
C26_Reproducible ==
    Len(signer.runs) = 2 => signer.runs[1].header = signer.runs[2].header

\* C27: the header holds the seven oauth_* parameters, each once, in
\* ascending order of key, with the values of the credentials, the nonce and
\* the timestamp; the caller's extra and query pairs are all in the signature
\* base and none is in the header.
C27_HeaderParams ==
    \A n \in 1 .. Len(signer.runs) :
        LET r == signer.runs[n]
            h == r.header
            c == signer.args.creds
        IN /\ [i \in 1 .. Len(h) |-> h[i][1]] =
                  <<Lit.oauth_consumer_key, Lit.oauth_nonce, Lit.oauth_signature,
                    Lit.oauth_signature_method, Lit.oauth_timestamp, Lit.oauth_token,
                    Lit.oauth_version>>
           /\ \A i \in 1 .. Len(h) - 1 : Less(h[i][1], h[i + 1][1])
           /\ h[1][2] = percent_encode(c.api_key)
           /\ h[2][2] = r.nonce
           /\ h[4][2] = Lit.hmac_sha1
           /\ h[5][2] = r.timestamp
           /\ h[6][2] = percent_encode(c.access_token)
           /\ h[7][2] = Lit.version
           /\ Len(r.all_params) = 6 + Len(CallerPairs)
           /\ \A k \in 1 .. Len(CallerPairs) :
                /\ \E i \in 1 .. Len(r.all_params) : r.all_params[i] = CallerPairs[k]
                /\ \A i \in 1 .. Len(h) : h[i] # EncodedPair(CallerPairs[k])

\* A call signed with an extra parameter named oauth_token and a query
\* parameter in the URL.
C27_Witness ==
    /\ Len(signer.runs) >= 1
    /\ signer.args.params # None
    /\ \E k \in 1 .. Len(signer.args.params[1]) : signer.args.params[1][k][1] = Lit.oauth_token
    /\ signer.args.query # <<>>

\* ------------------------------------------------ the application (app.rs)
\* AppEvent: one shape for all; kind is a view kind or the kind of a fetch,
\* result the result a *Loaded event carries: an error, no data, or data
\* with a next_token.
Ev(type, kind, result) == [type |-> type, kind |-> kind, result |-> result]

\* Timelines whose first page a view asks for (fetch_for_view and run).
FetchedViews == {"Home", "Mentions", "Bookmarks"}
LoadedResults == {"Err", "Empty", "Next"}

\* Keys pressed and, for Enter in command or search mode, what was typed.
Keys == {"q", "?", "1", "2", "4", "Enter", "/", ":", "n", "Esc", "Ctrl-C"}
Typed == {"user", "search", "open", "open?", "home", "help", "quit", ""}

\* Environments main starts in: at most the bearer token is set.
StartEnvironments ==
    {env \in Environments : \A v \in CredVarNames : v # "X_BEARER_TOKEN" => env[v] = None}

AppIdle ==
    tui = [pc |-> "Start", start |-> "Pending", api_client |-> FALSE, running |-> FALSE,
           view_stack |-> <<>>, mode |-> "Normal", queue |-> <<>>, loading |-> FALSE,
           tweets |-> {}, next_token |-> {}, spawned |-> <<>>, sent |-> 0, keys |-> 0]

current_view(a) == IF a.view_stack = <<>> THEN None ELSE Some(a.view_stack[Len(a.view_stack)])

push_view(view_stack, kind) == Append(view_stack, kind)

\* A pop that does not look at the depth.
pop_view_unguarded(view_stack) == SubSeq(view_stack, 1, Len(view_stack) - 1)

pop_view(view_stack) ==
    IF Len(view_stack) > 1 THEN SubSeq(view_stack, 1, Len(view_stack) - 1) ELSE view_stack

\* fetch_for_view: the events it sends
fetch_for_view(a, kind) ==
    IF kind \in FetchedViews /\ kind \notin a.tweets THEN <<Ev("Fetch", kind, "none")>> ELSE <<>>

\* A dispatch that does not look for the client.
dispatch_api_request_unguarded(a, kind) ==
    [a EXCEPT !.spawned = Append(@, kind), !.sent = @ + 1]

\* dispatch_api_request: a task is spawned, and it will send a request
dispatch_api_request(a, kind) ==
    IF ~a.api_client THEN a
    ELSE [a EXCEPT !.spawned = Append(@, kind), !.sent = @ + 1]

\* main from load_config on, App::new, and run up to its loop
Main ==
    /\ tui.pc = "Start"
    /\ \E env \in StartEnvironments, default_view \in {"Home", "Search"} :
        LET loaded == load_credentials(env)
            auth == AuthProviderNew(loaded.creds)
            start == IF loaded.res # "Ok" THEN loaded.res ELSE auth.res
        IN tui' = [tui EXCEPT !.pc = "Running", !.start = start,
                              !.api_client = (start = "Ok"), !.running = TRUE,
                              !.view_stack = <<default_view>>,
                              !.queue = IF default_view \in FetchedViews
                                        THEN <<Ev("Fetch", default_view, "none")>> ELSE <<>>]
    /\ UNCHANGED <<file, now, flowVars, apiVars, raceVars, credVars, callVars, lateVars, listeners,
                   signer, scroll, store>>

\* handle_normal_key: the events sent and the mode entered
handle_normal_key(a, key) ==
    LET top == current_view(a)[1]
        sent ==
            CASE key \in {"q", "Esc"} ->
                    IF Len(a.view_stack) > 1 THEN <<Ev("PopView", "none", "none")>>
                    ELSE <<Ev("Quit", "none", "none")>>
              [] key = "?" -> <<Ev("PushView", "Help", "none")>>
              [] key = "1" -> <<Ev("SwitchView", "Home", "none")>>
              [] key = "2" -> <<Ev("SwitchView", "Mentions", "none")>>
              [] key = "4" -> <<Ev("SwitchView", "Search", "none")>>
              [] key = "Enter" -> IF top \in a.tweets THEN <<Ev("Fetch", "Thread", "none")>> ELSE <<>>
              [] key = "n" ->
                    IF top \in a.next_token THEN <<Ev("Fetch", top, "none")>>
                    ELSE IF top = "Thread" THEN <<Ev("Fetch", "Thread", "none")>>
                    ELSE <<>>
              [] OTHER -> <<>>
        mode == CASE key = "/" -> "Search" [] key = ":" -> "Command" [] OTHER -> a.mode
    IN [a EXCEPT !.queue = @ \o sent, !.mode = mode]

\* execute_command, for what parse_command made of the input
execute_command(a, typed) ==
    LET sent ==
            CASE typed = "user" -> <<Ev("Fetch", "User", "none")>>
              [] typed = "search" -> <<Ev("Fetch", "Search", "none"), Ev("SwitchView", "Search", "none")>>
              [] typed = "open" -> <<Ev("Fetch", "Tweet", "none")>>
              [] typed = "home" -> <<Ev("SwitchView", "Home", "none")>>
              [] typed = "help" -> <<Ev("PushView", "Help", "none")>>
              [] typed = "quit" -> <<Ev("Quit", "none", "none")>>
              [] OTHER -> <<>>
    IN [a EXCEPT !.queue = @ \o sent]

\* handle_key_event
handle_key_event(a, key, typed) ==
    IF key = "Ctrl-C" THEN [a EXCEPT !.queue = Append(@, Ev("Quit", "none", "none"))]
    ELSE IF a.mode = "Normal" THEN handle_normal_key(a, key)
    ELSE IF a.mode = "Command"
    THEN CASE key = "Esc" -> [a EXCEPT !.mode = "Normal"]
           [] key = "Enter" -> [execute_command(a, typed) EXCEPT !.mode = "Normal"]
           [] OTHER -> a
    ELSE CASE key = "Esc" -> [a EXCEPT !.mode = "Normal"]
           [] key = "Enter" ->
                [a EXCEPT !.mode = "Normal",
                          !.queue = IF typed # "" THEN @ \o <<Ev("Fetch", "Search", "none"), Ev("SwitchView", "Search", "none")>>
                                    ELSE @]
           [] OTHER -> a

\* run: Event::Crossterm, a key is pressed
KeyPress ==
    /\ tui.pc = "Running"
    /\ tui.keys < MaxKeys
    /\ \E key \in Keys, typed \in Typed :
        /\ (tui.mode = "Normal" \/ key # "Enter") => typed = ""
        /\ tui' = [handle_key_event(tui, key, typed) EXCEPT !.keys = @ + 1]
    /\ UNCHANGED <<file, now, flowVars, apiVars, raceVars, credVars, callVars, lateVars, listeners,
                   signer, scroll, store>>

\* An Err arm that drops the timeline's list and token.
handle_loaded_error_reset(a, ev) ==
    [a EXCEPT !.loading = FALSE, !.tweets = @ \ {ev.kind}, !.next_token = @ \ {ev.kind}]

\* the Err arm of a *Loaded event: loading = false, status_message = Some(..)
handle_loaded_error(a, ev) == [a EXCEPT !.loading = FALSE]

\* handle_app_event for a *Loaded event
handle_loaded(a, ev) ==
    LET ok == ev.result # "Err"
        data == ev.result = "Next"
        b == [a EXCEPT !.loading = FALSE]
    IN CASE ~ok -> handle_loaded_error(a, ev)
         [] ev.kind \in FetchedViews ->
                [b EXCEPT !.tweets = IF data THEN @ \cup {ev.kind} ELSE @,
                          !.next_token = IF ev.result = "Next" THEN @ \cup {ev.kind}
                                         ELSE @ \ {ev.kind}]
         [] ev.kind = "Search" ->
                [b EXCEPT !.tweets = IF data THEN @ \cup {"Search"} ELSE @ \ {"Search"},
                          !.next_token = IF ev.result = "Next" THEN @ \cup {"Search"}
                                         ELSE @ \ {"Search"}]
         [] ev.kind = "Tweet" ->
                IF data
                THEN [b EXCEPT !.queue = Append(@, Ev("Fetch", "Thread", "none")),
                               !.view_stack = push_view(@, "Thread")]
                ELSE b
         [] ev.kind = "Thread" ->
                IF current_view(b) # Some("Thread")
                THEN [b EXCEPT !.view_stack = push_view(@, "Thread")]
                ELSE b
         [] ev.kind = "User" ->
                IF data THEN [b EXCEPT !.view_stack = push_view(@, "UserProfile")] ELSE b
         [] OTHER -> b

\* handle_app_event
handle_app_event(a, ev) ==
    CASE ev.type = "Quit" -> [a EXCEPT !.running = FALSE, !.pc = "Stopped"]
      [] ev.type = "PushView" -> [a EXCEPT !.view_stack = push_view(@, ev.kind)]
      [] ev.type = "PopView" -> [a EXCEPT !.view_stack = pop_view(@)]
      [] ev.type = "SwitchView" ->
            LET b == [a EXCEPT !.view_stack = IF Len(@) <= 1 THEN push_view(<<>>, ev.kind)
                                              ELSE push_view(@, ev.kind)]
            IN [b EXCEPT !.queue = @ \o fetch_for_view(b, ev.kind)]
      [] ev.type = "Fetch" -> dispatch_api_request([a EXCEPT !.loading = TRUE], ev.kind)
      [] OTHER -> handle_loaded(a, ev)

\* run: Event::App, the next event of the channel is handled
HandleAppEvent ==
    /\ tui.pc = "Running"
    /\ tui.queue # <<>>
    /\ tui' = handle_app_event([tui EXCEPT !.queue = Tail(@)], Head(tui.queue))
    /\ UNCHANGED <<file, now, flowVars, apiVars, raceVars, credVars, callVars, lateVars, listeners,
                   signer, scroll, store>>

\* A spawned task ends: its request was answered, it sends the *Loaded event
TaskDone ==
    /\ tui.pc = "Running"
    /\ \E i \in 1 .. Len(tui.spawned), result \in LoadedResults :
        tui' = [tui EXCEPT !.spawned = SubSeq(@, 1, i - 1) \o SubSeq(@, i + 1, Len(@)),
                           !.queue = Append(@, Ev("Loaded", tui.spawned[i], result))]
    /\ UNCHANGED <<file, now, flowVars, apiVars, raceVars, credVars, callVars, lateVars, listeners,
                   signer, scroll, store>>

\* --------------------------------------------------- claims: application
\* The step handles the event at the head of the channel, of the given type.
Handles(type) ==
    /\ tui.pc = "Running"
    /\ tui.queue # <<>>
    /\ Head(tui.queue).type = type
    /\ tui'.keys = tui.keys
    /\ Len(tui'.spawned) >= Len(tui.spawned)
    /\ tui' # tui

C28_NoClient ==
    (tui.pc # "Start" /\ tui.start # "Ok") =>
        /\ ~tui.api_client
        /\ tui.sent = 0
        /\ tui.spawned = <<>>

C28_Step ==
    /\ (tui.pc = "Start" /\ tui'.pc # "Start" /\ tui'.start # "Ok") =>
            (tui'.pc = "Running" /\ tui'.running /\ ~tui'.api_client)
    /\ (tui.running /\ ~tui'.running) => Handles("Quit")
    /\ (Handles("Fetch") /\ ~tui.api_client) =>
            (tui'.sent = tui.sent /\ tui'.spawned = tui.spawned /\ tui'.running)

\* C28: when main finds no credentials or cannot set up authentication, the
\* application enters its event loop without an API client and runs until
\* it is told to quit; handling a Fetch* event then sends no request.
C28_RunsWithoutClient == []C28_NoClient /\ [][C28_Step]_vars

\* No credentials were found; the first fetch of the home timeline has been
\* handled, nothing was sent, the application runs.
C28_Witness ==
    /\ tui.start = "NoCredentials"
    /\ tui.pc = "Running"
    /\ tui.running
    /\ tui.loading
    /\ tui.queue = <<>>
    /\ tui.sent = 0

C29_NonEmpty == tui.pc # "Start" => Len(tui.view_stack) >= 1

C29_Step ==
    /\ (Handles("PopView") /\ Len(tui.view_stack) = 1) => tui'.view_stack = tui.view_stack
    /\ (Handles("SwitchView") /\ Len(tui.view_stack) <= 1) =>
            tui'.view_stack = <<Head(tui.queue).kind>>

\* C29: whatever keys are pressed and events handled, the view stack holds
\* at least one view; PopView at depth 1 changes nothing, SwitchView at depth
\* 1 leaves exactly the requested view.
C29_StackNeverEmpty == []C29_NonEmpty /\ [][C29_Step]_vars

\* A view was pushed and popped again, and a second PopView is at the head
\* of the channel, facing a stack of depth 1.
C29_Witness ==
    /\ Len(tui.view_stack) = 1
    /\ tui.queue # <<>>
    /\ Head(tui.queue).type = "PopView"

\* C38: handling a *Loaded event that carries an error clears the loading
\* flag and changes nothing else: the lists, the next tokens, the view stack,
\* the mode, the tasks and the rest of the channel are as they were.
C38_ErrorFrame ==
    [][(Handles("Loaded") /\ Head(tui.queue).result = "Err") =>
            tui' = [tui EXCEPT !.queue = Tail(@), !.loading = FALSE]]_vars

\* The next event is a failed fetch of a timeline that has tweets and a next
\* token, and the loading flag is set.
C38_Witness ==
    /\ tui.pc = "Running"
    /\ tui.queue # <<>>
    /\ Head(tui.queue).type = "Loaded"
    /\ Head(tui.queue).result = "Err"
    /\ Head(tui.queue).kind \in tui.tweets \cap tui.next_token
    /\ tui.loading

\* The fetches of a timeline that are under way: Fetch* events waiting in the
\* channel, spawned tasks, and *Loaded events not yet handled.
Outstanding(k) ==
    Cardinality({i \in 1 .. Len(tui.queue) :
                    tui.queue[i].type \in {"Fetch", "Loaded"} /\ tui.queue[i].kind = k})
        + Cardinality({i \in 1 .. Len(tui.spawned) : tui.spawned[i] = k})

\* C36 as stated, for a timeline whose list is still empty: no page was
\* loaded yet, so next_token was never set, load_next_page has sent nothing,
\* and every fetch under way asks for the first page; at most one is.
C36_OneFirstPage == \A k \in FetchedViews : k \notin tui.tweets => Outstanding(k) <= 1

\* C35 as stated: while the application runs, a loading flag that is set is
\* cleared again, with or without an API client, given that the event loop
\* handles every queued event and every spawned task ends.
C35_LoadingClears ==
    (tui.pc = "Running" /\ tui.loading) ~> (tui.pc # "Running" \/ ~tui.loading)

\* With an API client the flag is cleared again.
C35_LoadingClearsWithClient ==
    (tui.pc = "Running" /\ tui.loading /\ tui.api_client)
        ~> (tui.pc # "Running" \/ ~tui.loading)

\* With an API client every handled Fetch* event spawns one task, and a task
\* that ends sends one *Loaded event of its kind.
C35_OneLoadedPerFetch ==
    [][/\ (Handles("Fetch") /\ tui.api_client) =>
              tui'.spawned = Append(tui.spawned, Head(tui.queue).kind)
       /\ Len(tui'.spawned) < Len(tui.spawned) =>
              \E k \in {tui.spawned[i] : i \in 1 .. Len(tui.spawned)}, res \in LoadedResults :
                  tui'.queue = Append(tui.queue, Ev("Loaded", k, res))]_vars


\* ------------------------------------- compute_scroll_start (ui/timeline.rs)
\* u16 is scaled down to 0 .. MaxU16: heights and the available height range
\* over it and saturating_add stops at MaxU16. A tweet card and its separator
\* take at least one line. Indices count from 0 as in the code.
ScrollInputs ==
    [heights : SeqsUpTo(1 .. MaxU16, MaxItems), selected : 0 .. MaxItems, available : 0 .. MaxU16]

ScrollIdle ==
    scroll = [pc |-> "Idle", heights |-> <<>>, selected |-> 0, available |-> 0,
              start |-> 0, used |-> 0, result |-> None]

saturating_add(a, b) == IF a + b > MaxU16 THEN MaxU16 ELSE a + b

\* compute_scroll_start up to its loop
ScrollEnter ==
    /\ scroll.pc = "Idle"
    /\ \E in \in ScrollInputs :
        LET selected == IF in.selected < Len(in.heights) - 1 THEN in.selected
                        ELSE Len(in.heights) - 1
            called == [scroll EXCEPT !.heights = in.heights, !.selected = in.selected,
                                     !.available = in.available]
        IN scroll' =
            IF in.heights = <<>> THEN [called EXCEPT !.pc = "Done", !.result = Some(0)]
            ELSE IF in.available = 0
            THEN [called EXCEPT !.pc = "Done", !.result = Some(selected)]
            ELSE [called EXCEPT !.pc = "Loop", !.start = selected,
                                !.used = in.heights[selected + 1]]
    /\ UNCHANGED <<file, now, flowVars, apiVars, raceVars, credVars, callVars, lateVars, listeners,
                   signer, tui, store>>

\* one test of `while start > 0` and, if it holds, one turn of the loop
ScrollLoop ==
    /\ scroll.pc = "Loop"
    /\ LET next == saturating_add(scroll.used, scroll.heights[scroll.start])
       IN scroll' =
            IF scroll.start > 0 /\ ~(next > scroll.available)
            THEN [scroll EXCEPT !.start = @ - 1, !.used = next]
            ELSE [scroll EXCEPT !.pc = "Done", !.result = Some(scroll.start)]
    /\ UNCHANGED <<file, now, flowVars, apiVars, raceVars, credVars, callVars, lateVars, listeners,
                   signer, tui, store>>

\* ------------------------------------------------------- claims: scrolling
\* The sum of heights[i ..= j], indices from 0.
RECURSIVE HeightSum(_, _, _)
HeightSum(heights, i, j) == IF i > j THEN 0 ELSE heights[i + 1] + HeightSum(heights, i + 1, j)

\* C30: the loop ends (each turn lowers start), and the result is 0 for an
\* empty list, otherwise the smallest start <= s = min(selected, len - 1)
\* from which the items up to s fit the available height, or s itself when
\* the selected item alone does not fit or no height is available.
C30_Result ==
    scroll.pc = "Done" =>
        LET h == scroll.heights
            s == IF scroll.selected < Len(h) - 1 THEN scroll.selected ELSE Len(h) - 1
            start == scroll.result[1]
        IN IF h = <<>> THEN start = 0
           ELSE /\ start \in 0 .. s
                /\ start = s \/ HeightSum(h, start, s) <= scroll.available
                /\ start = 0 \/ HeightSum(h, start - 1, s) > scroll.available
                /\ scroll.available = 0 => start = s

C30_Step == scroll.pc = "Loop" => (scroll'.pc = "Done" \/ scroll'.start < scroll.start)

CommandWords ==
    {"user", "search", "open", "home", "mentions", "m", "bookmarks", "b", "help", "h",
     "auth", "login", "quit", "q"}

CommandInputs ==
    {prefix \o word \o rest :
        prefix \in {<<>>, <<":">>, <<" ">>, <<":", " ">>, <<":", ":">>},
        word \in {<<>>} \cup {<<w>> : w \in CommandWords \cup {"zz"}},
        rest \in SeqsUpTo({" ", "@", "a"}, MaxArg)}

\* str::trim
RECURSIVE trim(_)
trim(str) ==
    IF str = <<>> THEN <<>>
    ELSE IF Head(str) = " " THEN trim(Tail(str))
    ELSE IF str[Len(str)] = " " THEN trim(SubSeq(str, 1, Len(str) - 1))
    ELSE str

\* A strip_at that strips nothing.
strip_at_none(username) == username

\* strip_at
strip_at(username) ==
    IF username # <<>> /\ Head(username) = "@" THEN Tail(username) ELSE username

NoCommand == [tag |-> "None", arg |-> <<>>]

\* parse_command
parse_command(raw) ==
    LET input == trim(IF raw # <<>> /\ Head(raw) = ":" THEN Tail(raw) ELSE raw)
        spaces == {i \in 1 .. Len(input) : input[i] = " "}
        at == IF spaces = {} THEN 0 ELSE CHOOSE i \in spaces : \A j \in spaces : i <= j
        cmd == IF at = 0 THEN input ELSE SubSeq(input, 1, at - 1)
        args == IF at = 0 THEN <<>> ELSE trim(SubSeq(input, at + 1, Len(input)))
    IN IF input = <<>> THEN NoCommand
       ELSE CASE cmd = <<"user">> /\ args # <<>> -> [tag |-> "User", arg |-> strip_at(args)]
              [] cmd = <<"search">> /\ args # <<>> -> [tag |-> "Search", arg |-> args]
              [] cmd = <<"open">> /\ args # <<>> -> [tag |-> "Open", arg |-> args]
              [] cmd = <<"home">> -> [tag |-> "Home", arg |-> <<>>]
              [] cmd \in {<<"mentions">>, <<"m">>} -> [tag |-> "Mentions", arg |-> <<>>]
              [] cmd \in {<<"bookmarks">>, <<"b">>} -> [tag |-> "Bookmarks", arg |-> <<>>]
              [] cmd \in {<<"help">>, <<"h">>} -> [tag |-> "Help", arg |-> <<>>]
              [] cmd \in {<<"auth">>, <<"login">>} -> [tag |-> "Auth", arg |-> <<>>]
              [] cmd \in {<<"quit">>, <<"q">>} -> [tag |-> "Quit", arg |-> <<>>]
              [] OTHER -> NoCommand

ParseIdle == cmdline = [pc |-> "Idle", input |-> <<>>, result |-> NoCommand]

\* parse_command(input), called once
ParseCommand ==
    /\ cmdline.pc = "Idle"
    /\ \E input \in CommandInputs :
        cmdline' = [pc |-> "Done", input |-> input, result |-> parse_command(input)]
    /\ UNCHANGED <<file, now, flowVars, apiVars, raceVars, credVars, callVars, moreVars,
                   sel, orflow>>

\* ------------------------------------------------- claims: parse_command
\* C32: with b the input less one leading ":", w its first run of tokens
\* other than spaces and a what follows that run less the spaces around it:
\* the result is None when b holds spaces only or w is no command word; an
\* alias gives the command of its pair; User, Search and Open are returned
\* only with a non-empty a, None without; User carries a less one leading
\* "@", Search and Open carry a; and an input gives the same result with and
\* without a leading ":".
C32_Parsed ==
    cmdline.pc = "Done" =>
        LET raw == cmdline.input
            res == cmdline.result
            b == IF raw # <<>> /\ raw[1] = ":" THEN SubSeq(raw, 2, Len(raw)) ELSE raw
            ink == {i \in 1 .. Len(b) : b[i] # " "}
            first == CHOOSE i \in ink : \A j \in ink : i <= j
            gaps == {i \in first .. Len(b) : b[i] = " "}
            stop == IF gaps = {} THEN Len(b) + 1 ELSE CHOOSE i \in gaps : \A j \in gaps : i <= j
            w == SubSeq(b, first, stop - 1)
            rest == {i \in ink : i > stop}
            a == IF rest = {} THEN <<>>
                 ELSE SubSeq(b, CHOOSE i \in rest : \A j \in rest : i <= j,
                                CHOOSE i \in rest : \A j \in rest : i >= j)
            tagOf == [x \in CommandWords |->
                        CASE x = "user" -> "User" [] x = "search" -> "Search"
                          [] x = "open" -> "Open" [] x = "home" -> "Home"
                          [] x \in {"mentions", "m"} -> "Mentions"
                          [] x \in {"bookmarks", "b"} -> "Bookmarks"
                          [] x \in {"help", "h"} -> "Help"
                          [] x \in {"auth", "login"} -> "Auth"
                          [] OTHER -> "Quit"]
        IN /\ (raw = <<>> \/ raw[1] # ":") => parse_command(<<":">> \o raw) = res
           /\ IF ink = {} \/ Len(w) # 1 \/ w[1] \notin CommandWords THEN res = NoCommand
              ELSE IF w[1] \in {"user", "search", "open"}
              THEN IF a = <<>> THEN res = NoCommand
                   ELSE /\ res.tag = tagOf[w[1]]
                        /\ res.arg = IF w[1] = "user" /\ a[1] = "@"
                                     THEN SubSeq(a, 2, Len(a)) ELSE a
              ELSE res = [tag |-> tagOf[w[1]], arg |-> <<>>]

\* ":user @a" was parsed to User("a").
C32_Witness ==
    /\ cmdline.pc = "Done"
    /\ cmdline.input = <<":", "user", " ", "@", "a">>
    /\ cmdline.result = [tag |-> "User", arg |-> <<"a">>]

\* ------------------------------------- the selection of the top view (app.rs)
\* The view stack with the selected_index of each ViewState, the length of
\* the list each kind of view shows, and the fetches under way (one of a kind
\* is kept). A key and the event it sends are handled in one step. A list
\* holds at most MaxItems tweets, the stack at most MaxDepth views.
ListKinds == {"Home", "Search", "Thread"}

ViewState(kind) == [kind |-> kind, selected_index |-> 0]

\* App::new with the home view, and the first fetch of run
SelectIdle ==
    sel = [view_stack |-> <<ViewState("Home")>>, len |-> [k \in ListKinds |-> 0],
           next_token |-> {}, pending |-> {"Home"}]

top_view(a) == a.view_stack[Len(a.view_stack)]

\* current_item_count
current_item_count(a) == IF top_view(a).kind \in ListKinds THEN a.len[top_view(a).kind] ELSE 0

with_selected(a, i) == [a EXCEPT !.view_stack[Len(a.view_stack)].selected_index = i]

\* 'j' / Down: move_selection_down
MoveSelectionDown ==
    /\ sel' = IF top_view(sel).selected_index + 1 < current_item_count(sel)
              THEN with_selected(sel, top_view(sel).selected_index + 1)
              ELSE sel
    /\ UNCHANGED <<file, now, flowVars, apiVars, raceVars, credVars, callVars, moreVars,
                   cmdline, orflow>>

\* 'k' / Up: move_selection_up, saturating_sub(1)
MoveSelectionUp ==
    /\ sel' = with_selected(sel, IF top_view(sel).selected_index = 0 THEN 0
                                 ELSE top_view(sel).selected_index - 1)
    /\ UNCHANGED <<file, now, flowVars, apiVars, raceVars, credVars, callVars, moreVars,
                   cmdline, orflow>>

\* Enter: open_selected sends FetchThread for the tweet at selected_index
OpenSelected ==
    /\ sel' = IF top_view(sel).kind \in {"Home", "Search"}
                 /\ top_view(sel).selected_index < sel.len[top_view(sel).kind]
              THEN [sel EXCEPT !.pending = @ \cup {"Thread"}]
              ELSE sel
    /\ UNCHANGED <<file, now, flowVars, apiVars, raceVars, credVars, callVars, moreVars,
                   cmdline, orflow>>

\* 'n': load_next_page
LoadNextPage ==
    /\ sel' = CASE top_view(sel).kind \in {"Home", "Search"}
                      /\ top_view(sel).kind \in sel.next_token ->
                        [sel EXCEPT !.pending = @ \cup {top_view(sel).kind}]
                [] top_view(sel).kind = "Thread" -> [sel EXCEPT !.pending = @ \cup {"Thread"}]
                [] OTHER -> sel
    /\ UNCHANGED <<file, now, flowVars, apiVars, raceVars, credVars, callVars, moreVars,
                   cmdline, orflow>>

\* handle_app_event, SwitchView: clear and push at depth 1, push otherwise
switch_view(view_stack, kind) ==
    IF Len(view_stack) <= 1 THEN <<ViewState(kind)>> ELSE Append(view_stack, ViewState(kind))

\* a search is submitted: FetchSearch and SwitchView(Search)
SubmitSearch ==
    /\ Len(sel.view_stack) < MaxDepth
    /\ sel' = [sel EXCEPT !.pending = @ \cup {"Search"},
                          !.view_stack = switch_view(@, "Search")]
    /\ UNCHANGED <<file, now, flowVars, apiVars, raceVars, credVars, callVars, moreVars,
                   cmdline, orflow>>

\* '?': PushView(Help)
PushHelp ==
    /\ Len(sel.view_stack) < MaxDepth
    /\ sel' = [sel EXCEPT !.view_stack = Append(@, ViewState("Help"))]
    /\ UNCHANGED <<file, now, flowVars, apiVars, raceVars, credVars, callVars, moreVars,
                   cmdline, orflow>>

\* 'q' / Esc above the root: PopView
PopView ==
    /\ Len(sel.view_stack) > 1
    /\ sel' = [sel EXCEPT !.view_stack = pop_view(@)]
    /\ UNCHANGED <<file, now, flowVars, apiVars, raceVars, credVars, callVars, moreVars,
                   cmdline, orflow>>

\* HomeTimelineLoaded (the page is appended), SearchLoaded (the list is
\* replaced), ThreadLoaded (replaced, and the thread view pushed unless it is
\* on top) with n tweets, or any of them with an error; no arm assigns
\* selected_index
ListLoaded ==
    /\ \E kind \in sel.pending, ok \in BOOLEAN, n \in 0 .. MaxItems, more \in BOOLEAN :
        LET a == [sel EXCEPT !.pending = @ \ {kind}]
        IN CASE ~ok -> n = 0 /\ ~more /\ sel' = a
             [] ok /\ kind = "Home" ->
                    /\ sel.len["Home"] + n <= MaxItems
                    /\ sel' = [a EXCEPT !.len["Home"] = @ + n,
                                        !.next_token = IF more THEN @ \cup {"Home"}
                                                       ELSE @ \ {"Home"}]
             [] ok /\ kind = "Search" ->
                    sel' = [a EXCEPT !.len["Search"] = n,
                                     !.next_token = IF more THEN @ \cup {"Search"}
                                                    ELSE @ \ {"Search"}]
             [] OTHER ->
                    /\ ~more
                    /\ top_view(a).kind # "Thread" => Len(a.view_stack) < MaxDepth
                    /\ sel' = IF top_view(a).kind = "Thread"
                              THEN [a EXCEPT !.len["Thread"] = n]
                              ELSE [a EXCEPT !.len["Thread"] = n,
                                             !.view_stack = Append(@, ViewState("Thread"))]
    /\ UNCHANGED <<file, now, flowVars, apiVars, raceVars, credVars, callVars, moreVars,
                   cmdline, orflow>>

\* ------------------------------------------------- claims: selected_index
\* C37 as stated: the selected_index of the top view is less than the number
\* of items the view shows, or is 0 when it shows none.
C37_SelectionInRange ==
    \/ top_view(sel).selected_index < current_item_count(sel)
    \/ (current_item_count(sel) = 0 /\ top_view(sel).selected_index = 0)

\* ------------------------------- start_openrouter_auth (openrouter/auth.rs)
\* ~/.config/xplorertui/openrouter_tokens.json
KeyFile(kind, key) == [kind |-> kind, key |-> key]
NoKeyFile == KeyFile("absent", "")
InitKeyFiles == {NoKeyFile, KeyFile("garbage", ""), KeyFile("json", "k0")}

\* OPENROUTER_API_KEY: unset, empty, or a key
KeyEnvironments == {None, Some(""), Some("ek")}

\* Requests the listener reads: the path, and whether the query has an
\* `error` and a `code` parameter.
Requests ==
    [path : {"/start", "/", "/favicon.ico"}, error : BOOLEAN, code : {None, Some("c1")}]
NoRequest == [path |-> "", error |-> FALSE, code |-> None]

NotLoadedKey == [res |-> "Pending", key |-> ""]

OpenRouterIdle ==
    orflow = [pc |-> "Start", env |-> None, keyfile |-> NoKeyFile, keyfile0 |-> NoKeyFile,
              result |-> "Pending", last |-> NoRequest, lastWrite |-> FALSE, requests |-> 0,
              code |-> None, exchanged |-> 0, exch_ok |-> FALSE, writes |-> 0,
              loaded |-> NotLoadedKey, loadedFile |-> NoKeyFile]

\* save_key_data: the file after the call, by how far the call got
save_key_data(f, key, outcome) ==
    CASE outcome = "ok" -> KeyFile("json", key)
      [] outcome = "mkdir_err" -> f
      [] OTHER -> KeyFile("garbage", "")

\* load_key_data
load_key_data(f, readOk) ==
    CASE f.kind = "absent" -> [res |-> "Ok", key |-> None]
      [] ~readOk -> [res |-> "Io", key |-> None]
      [] f.kind = "garbage" -> [res |-> "Json", key |-> None]
      [] OTHER -> [res |-> "Ok", key |-> Some(f.key)]

\* load_api_key
load_api_key(env, f, readOk) ==
    IF env # None /\ env[1] # "" THEN [res |-> "Ok", key |-> env[1]]
    ELSE LET l == load_key_data(f, readOk)
         IN CASE l.res # "Ok" -> [res |-> l.res, key |-> ""]
              [] l.res = "Ok" /\ l.key # None -> [res |-> "Ok", key |-> l.key[1]]
              [] OTHER -> [res |-> "NoApiKey", key |-> ""]

\* A loop that looks for the code before it looks for `error`.
handle_request_code_first(req, writeOk) ==
    CASE ~writeOk -> [pc |-> "Failed", result |-> "Io"]
      [] writeOk /\ req.path = "/start" -> [pc |-> "Waiting", result |-> "Pending"]
      [] writeOk /\ req.path # "/start" /\ req.code # None ->
            [pc |-> "Exchanging", result |-> "Pending"]
      [] writeOk /\ req.path # "/start" /\ req.code = None /\ req.error ->
            [pc |-> "Failed", result |-> "Auth"]
      [] OTHER -> [pc |-> "Waiting", result |-> "Pending"]

\* One turn of the accept loop after the request was read: /start is answered
\* with the start page, `error` with 400 and Err(Auth), no code with 404, a
\* code with the success page; every write_response is followed by `?`.
handle_request(req, writeOk) ==
    CASE ~writeOk -> [pc |-> "Failed", result |-> "Io"]
      [] writeOk /\ req.path = "/start" -> [pc |-> "Waiting", result |-> "Pending"]
      [] writeOk /\ req.path # "/start" /\ req.error -> [pc |-> "Failed", result |-> "Auth"]
      [] writeOk /\ req.path # "/start" /\ ~req.error /\ req.code = None ->
            [pc |-> "Waiting", result |-> "Pending"]
      [] OTHER -> [pc |-> "Exchanging", result |-> "Pending"]

\* the process starts: the environment and the key file it finds
OpenRouterStart ==
    /\ orflow.pc = "Start"
    /\ \E env \in KeyEnvironments, f \in InitKeyFiles :
        orflow' = [orflow EXCEPT !.pc = "Idle", !.env = env, !.keyfile = f, !.keyfile0 = f]
    /\ UNCHANGED <<file, now, flowVars, apiVars, raceVars, credVars, callVars, moreVars,
                   cmdline, sel>>

\* load_api_key, called by whoever needs the key
LoadApiKey ==
    /\ orflow.pc # "Start"
    /\ \E readOk \in BOOLEAN :
        orflow' = [orflow EXCEPT !.loaded = load_api_key(orflow.env, orflow.keyfile, readOk),
                                 !.loadedFile = orflow.keyfile]
    /\ UNCHANGED <<file, now, flowVars, apiVars, raceVars, credVars, callVars, moreVars,
                   cmdline, sel>>

\* start_openrouter_auth up to the accept loop: bind, verifier, open::that
OpenRouterBind ==
    /\ orflow.pc = "Idle"
    /\ \E outcome \in {"ok", "AddrInUse", "other"} :
        orflow' = CASE outcome = "ok" -> [orflow EXCEPT !.pc = "Waiting"]
                    [] outcome = "AddrInUse" -> [orflow EXCEPT !.pc = "Failed", !.result = "Auth"]
                    [] OTHER -> [orflow EXCEPT !.pc = "Failed", !.result = "Io"]
    /\ UNCHANGED <<file, now, flowVars, apiVars, raceVars, credVars, callVars, moreVars,
                   cmdline, sel>>

\* listener.accept() or the read of the request fails
OpenRouterAcceptError ==
    /\ orflow.pc = "Waiting"
    /\ orflow' = [orflow EXCEPT !.pc = "Failed", !.result = "Io", !.last = NoRequest,
                                !.lastWrite = FALSE]
    /\ UNCHANGED <<file, now, flowVars, apiVars, raceVars, credVars, callVars, moreVars,
                   cmdline, sel>>

\* one request is read and answered
OpenRouterRequest ==
    /\ orflow.pc = "Waiting"
    /\ orflow.requests < MaxRequests
    /\ \E req \in Requests, writeOk \in BOOLEAN :
        LET h == handle_request(req, writeOk)
        IN orflow' = [orflow EXCEPT !.pc = h.pc, !.result = h.result, !.last = req,
                                    !.lastWrite = writeOk, !.requests = @ + 1,
                                    !.code = IF h.pc = "Exchanging" THEN req.code ELSE @]
    /\ UNCHANGED <<file, now, flowVars, apiVars, raceVars, credVars, callVars, moreVars,
                   cmdline, sel>>

\* POST /api/v1/auth/keys is answered (or not); save_key_data; Ok(key_data)
OpenRouterExchange ==
    /\ orflow.pc = "Exchanging"
    /\ \/ \E err \in {"Http", "ApiError"} :
            orflow' = [orflow EXCEPT !.pc = "Failed", !.result = err, !.exchanged = @ + 1]
       \/ \E outcome \in {"ok", "mkdir_err", "write_err"} :
            orflow' = [orflow EXCEPT !.pc = IF outcome = "ok" THEN "Complete" ELSE "Failed",
                                     !.result = save_result(outcome),
                                     !.exchanged = @ + 1,
                                     !.exch_ok = TRUE,
                                     !.writes = IF outcome = "mkdir_err" THEN @ ELSE @ + 1,
                                     !.keyfile = save_key_data(@, "k1", outcome)]
    /\ UNCHANGED <<file, now, flowVars, apiVars, raceVars, credVars, callVars, moreVars,
                   cmdline, sel>>

\* ----------------------------------------- claims: start_openrouter_auth
\* The key file differs from the one found at the start only after a request
\* with a code was answered and the exchange succeeded.
C39_WriteAfterExchange ==
    /\ orflow.writes > 0 => (orflow.code # None /\ orflow.exch_ok /\ orflow.exchanged = 1)
    /\ orflow.keyfile # orflow.keyfile0 => orflow.writes > 0
    /\ orflow.exchanged > 0 => orflow.code # None

\* load_api_key: the non-empty environment value first, else the stored key;
\* NoApiKey only with no such value and no key file.
C39_LoadApiKey ==
    orflow.loaded.res # "Pending" =>
        /\ (orflow.env # None /\ orflow.env[1] # "") =>
               orflow.loaded = [res |-> "Ok", key |-> orflow.env[1]]
        /\ ((orflow.env = None \/ orflow.env[1] = "") /\ orflow.loaded.res = "Ok") =>
               (orflow.loadedFile.kind = "json" /\ orflow.loaded.key = orflow.loadedFile.key)
        /\ orflow.loaded.res = "NoApiKey" <=>
               ((orflow.env = None \/ orflow.env[1] = "") /\ orflow.loadedFile.kind = "absent")

\* the request read last was not for /start and carried an `error` parameter
ErrorCallback == orflow.last # NoRequest /\ orflow.last.path # "/start" /\ orflow.last.error

\* the request read last was for /start, or carried neither `error` nor code
IgnoredRequest ==
    /\ orflow.last # NoRequest
    /\ \/ orflow.last.path = "/start"
       \/ (~orflow.last.error /\ orflow.last.code = None)

\* C39 as stated: the key file is written only after a request with a code
\* and a success response of the exchange; a request with an `error`
\* parameter ends the flow with an Auth error, no exchange and no write;
\* requests to /start and requests without a code leave the flow waiting;
\* load_api_key prefers the non-empty environment value and returns
\* NoApiKey only when there is neither.
C39_AsStated ==
    /\ C39_WriteAfterExchange
    /\ C39_LoadApiKey
    /\ ErrorCallback =>
           /\ orflow.pc = "Failed" /\ orflow.result = "Auth"
           /\ orflow.exchanged = 0 /\ orflow.writes = 0
    /\ IgnoredRequest => orflow.pc = "Waiting"

\* C39, amended: as stated, where the response to the request was written;
\* when that write failed the flow has ended with an I/O error, for a request
\* with an `error` parameter as for one to /start or one without a code, again
\* with no exchange and no write.
C39_KeyFlow ==
    /\ C39_WriteAfterExchange
    /\ C39_LoadApiKey
    /\ ErrorCallback =>
           /\ orflow.pc = "Failed"
           /\ orflow.result = (IF orflow.lastWrite THEN "Auth" ELSE "Io")
           /\ orflow.exchanged = 0 /\ orflow.writes = 0
    /\ IgnoredRequest =>
           IF orflow.lastWrite THEN orflow.pc = "Waiting"
           ELSE orflow.pc = "Failed" /\ orflow.result = "Io" /\ orflow.exchanged = 0

\* A request with both a code and an `error` parameter, after one to /start,
\* ended the flow with the Auth error; the key was then loaded from the
\* environment although a stored key exists.
C39_Witness ==
    /\ ErrorCallback
    /\ orflow.last.code # None
    /\ orflow.requests = 2
    /\ orflow.result = "Auth"
    /\ orflow.keyfile.kind = "json"
    /\ orflow.loaded = [res |-> "Ok", key |-> "ek"]

\* The key file was written with the key the exchange returned.
C39_WitnessWritten ==
    /\ orflow.pc = "Complete"
    /\ orflow.keyfile = KeyFile("json", "k1")
    /\ orflow.keyfile0 = KeyFile("json", "k0")

MoreIdle ==
    /\ ListenersIdle /\ SignerIdle /\ AppIdle /\ ScrollIdle /\ StoreIdle
    /\ ParseIdle /\ SelectIdle /\ OpenRouterIdle

\* --------------------------------------------------------- specifications
InitPkce ==
    /\ file \in InitFiles
    /\ now = 0
    /\ flow_pc = "Idle"
    /\ csrf_state = None
    /\ pkce_verifier = None
    /\ cb = None
    /\ flow_result = "Pending"
    /\ flow_data = None
    /\ pages = <<>>
    /\ file0 = file
    /\ flow_exchanged = 0
    /\ flow_writes = 0
    /\ lock = 0
    /\ user_id = None
    /\ task = [t \in Tasks |-> IdleTask]
    /\ fileVer = 0
    /\ xlog = <<>>
    /\ RaceIdle
    /\ MoreIdle
    /\ CredIdle
    /\ CallIdle

NextPkce ==
    \/ Bind
    \/ OpenBrowser
    \/ AcceptError
    \/ NotCallback
    \/ Callback
    \/ Validate
    \/ ExchangeDone
    \/ Tick

SpecPkce == InitPkce /\ [][NextPkce]_vars

InitApi == InitPkce

NextApi ==
    \/ Tick
    \/ \E t \in Tasks : Dispatch(t)
    \/ \E t \in Tasks : Lock(t)
    \/ \E t \in Tasks : GetMyUserId(t)
    \/ \E t \in Tasks : UsersMeDone(t)
    \/ \E t \in Tasks : GetOAuth2Bearer(t)
    \/ \E t \in Tasks : RefreshDone(t)
    \/ \E t \in Tasks : ApiDone(t)

SpecApi == InitApi /\ [][NextApi]_vars

InitRace == InitPkce

NextRace ==
    \/ Tick
    \/ \E p \in Procs : ProcLoad(p)
    \/ \E p \in Procs : ProcExchange(p)
    \/ \E p \in Procs : ProcSave(p)

SpecRace == InitRace /\ [][NextRace]_vars

IdleButCreds ==
    /\ file = AbsentFile
    /\ now = 0
    /\ flow_pc = "Idle"
    /\ csrf_state = None
    /\ pkce_verifier = None
    /\ cb = None
    /\ flow_result = "Pending"
    /\ flow_data = None
    /\ pages = <<>>
    /\ file0 = file
    /\ flow_exchanged = 0
    /\ flow_writes = 0
    /\ lock = 0
    /\ user_id = None
    /\ task = [t \in Tasks |-> IdleTask]
    /\ fileVer = 0
    /\ xlog = <<>>
    /\ RaceIdle
    /\ MoreIdle

\* load_credentials and AuthProvider::new where no .env file exists
InitCreds ==
    /\ IdleButCreds
    /\ CallIdle
    /\ environ \in Environments
    /\ env0 = environ
    /\ home \in BOOLEAN
    /\ nextPath = FirstPath(home)
    /\ lastFile = None
    /\ loaded_creds = NoLoad
    /\ provider = NoProvider

NextCreds ==
    \/ SkipEnvFile
    \/ LoadCredentials
    \/ NewProvider

SpecCreds == InitCreds /\ [][NextCreds]_vars

\* load_credentials over .env files
InitEnv ==
    /\ IdleButCreds
    /\ CallIdle
    /\ environ \in SmallEnvironments
    /\ env0 = environ
    /\ home \in BOOLEAN
    /\ nextPath = FirstPath(home)
    /\ lastFile = None
    /\ loaded_creds = NoLoad
    /\ provider = NoProvider

NextEnv ==
    \/ SkipEnvFile
    \/ LoadEnvFile
    \/ LoadCredentials

SpecEnv == InitEnv /\ [][NextEnv]_vars

\* Credential sets load_credentials can return.
CredentialSets ==
    {load_credentials(env).creds : env \in Environments} \ {EmptyCredentialSet}

\* one bearer_get / oauth_get of a client built by main
InitCall ==
    /\ file \in InitFiles
    /\ now = 0
    /\ flow_pc = "Idle"
    /\ csrf_state = None
    /\ pkce_verifier = None
    /\ cb = None
    /\ flow_result = "Pending"
    /\ flow_data = None
    /\ pages = <<>>
    /\ file0 = file
    /\ flow_exchanged = 0
    /\ flow_writes = 0
    /\ lock = 0
    /\ user_id = None
    /\ task = [t \in Tasks |-> IdleTask]
    /\ fileVer = 0
    /\ xlog = <<>>
    /\ RaceIdle
    /\ MoreIdle
    /\ CallIdle
    /\ environ = [v \in CredVarNames |-> None]
    /\ env0 = environ
    /\ home = TRUE
    /\ nextPath = PathsEnd
    /\ lastFile = None
    /\ \E c \in CredentialSets :
        /\ loaded_creds = [res |-> "Ok", creds |-> c]
        /\ provider = AuthProviderNew(c)

NextCall ==
    \/ Tick
    \/ Authorize
    \/ CallRefreshDone
    \/ CallResponse

SpecCall == InitCall /\ [][NextCall]_vars

\* start_pkce_flow started more than once on one port
InitBind == InitPkce

NextBind ==
    \/ \E f \in Flows : FlowBind(f)
    \/ \E f \in Flows : FlowOpenBrowser(f)
    \/ \E f \in Flows : FlowReturn(f)

SpecBind == InitBind /\ [][NextBind]_vars

\* save_tokens and load_tokens called in turn
InitStore == InitPkce

NextStore ==
    \/ StoreSave
    \/ StoreLoad

SpecStore == InitStore /\ [][NextStore]_vars

\* generate_oauth_header called twice with the same arguments
InitSign == InitPkce /\ file = AbsentFile

NextSign == generate_oauth_header

SpecSign == InitSign /\ [][NextSign]_vars

\* the terminal application: main, then the event loop of App::run
InitApp == InitPkce /\ file = AbsentFile

NextApp ==
    \/ Main
    \/ KeyPress
    \/ HandleAppEvent
    \/ TaskDone

SpecApp == InitApp /\ [][NextApp]_vars

\* the same, where the event loop takes every event sent to it and every
\* outbound call ends
SpecAppLive == SpecApp /\ WF_vars(HandleAppEvent) /\ WF_vars(TaskDone)

\* compute_scroll_start called once
InitScroll == InitPkce /\ file = AbsentFile

NextScroll ==
    \/ ScrollEnter
    \/ ScrollLoop

SpecScroll == InitScroll /\ [][NextScroll]_vars

\* parse_command called once
InitParse == InitPkce /\ file = AbsentFile

NextParse == ParseCommand

SpecParse == InitParse /\ [][NextParse]_vars

\* the selection: keys and *Loaded events in any order
InitSelect == InitPkce /\ file = AbsentFile

NextSelect ==
    \/ MoveSelectionDown
    \/ MoveSelectionUp
    \/ OpenSelected
    \/ LoadNextPage
    \/ SubmitSearch
    \/ PushHelp
    \/ PopView
    \/ ListLoaded

SpecSelect == InitSelect /\ [][NextSelect]_vars

\* the OpenRouter key: the authorization flow, and load_api_key at any time
InitOpenRouter == InitPkce /\ file = AbsentFile

NextOpenRouter ==
    \/ OpenRouterStart
    \/ LoadApiKey
    \/ OpenRouterBind
    \/ OpenRouterAcceptError
    \/ OpenRouterRequest
    \/ OpenRouterExchange

SpecOpenRouter == InitOpenRouter /\ [][NextOpenRouter]_vars

====
